---- MODULE Spec2Model ----
(***************************************************************************)
(* dish-dispatcher: the shelf manager (internal/shelves/manager.go and     *)
(* shelf.go), the order's decay model (internal/order/order.go) and the    *)
(* simulator's goroutines and stop channel.                                *)
(*                                                                         *)
(* Threads call ShelfManager.PlaceOrder, DeliverOrder and                  *)
(* RemoveExpiredOrders concurrently.  Every statement group of a method is *)
(* one step; sync.Mutex acquisitions (the manager's and each shelf's) are  *)
(* steps of their own.  Every time.Now() reads a clock that never runs     *)
(* backwards: any tick from the last reading on.  Times are whole ticks;   *)
(* the zero time.Time is 0 and the clock starts at 1.                      *)
(*                                                                         *)
(* pre and hist are history variables: pre[t] is the state the call of     *)
(* thread t found when it took the manager lock, hist counts the calls     *)
(* made and the results returned.  No action reads them to decide what the *)
(* program does; hist.calls ends the run after MaxCalls calls and          *)
(* hist.placed orders the pool for the callers of a shelf on its own.      *)
(*                                                                         *)
(* Specifications:                                                         *)
(*   Spec         PlaceOrder, DeliverOrder, RemoveExpiredOrders calls      *)
(*   SpecManager  the same with GetStats and GetAllOrders                  *)
(*   FairManager  SpecManager under fair scheduling                        *)
(*   FairSweeper  the periodic sweep and a clock that keeps running        *)
(*   SpecShelf    Shelf.AddOrder called directly, without the manager      *)
(*   SpecShelfOps Shelf.AddOrder, RemoveOrder, MarkOrderDelivered and      *)
(*                RemoveExpiredOrders called directly on one shelf         *)
(*   SpecSimulator Run, Stop and the four goroutines of the simulator      *)
(*   SpecValue    CalculateValue and IsExpired of one order                *)
(***************************************************************************)
EXTENDS Integers, FiniteSets, Sequences, TLC

\* ------------------------------------------------------------- bounds
NumOrders == 4
NumThreads == 2
MaxTime == 2
MaxCalls == 3
ShelfCapacity == 1
MaxShelfLife == 3
MaxDecayRate == 2

Orders == 1 .. NumOrders
Threads == 1 .. NumThreads
NoOrder == 0
NoThread == 0
ZeroTime == 0

\* ------------------------------------------------------------- order.go
Hot == "hot"
Cold == "cold"
Frozen == "frozen"

\* The inputs: order i of the pool is built by the caller with these fields.
TempCycle == <<Hot, Hot, Hot, "invalid", Cold, Frozen>>
TempOf(o) == TempCycle[((o - 1) % Len(TempCycle)) + 1]
ShelfLifeOf(o) == ((o - 1) % 2) + 1
DecayRateOf(o) == IF o % 3 = 0 THEN 0 ELSE 1
IDOf(o) == o
IDs == {IDOf(o) : o \in Orders}

NewOrder ==
  [PlacedOnShelfAt |-> ZeroTime, PlacedOnOverflow |-> ZeroTime,
   CurrentShelfType |-> "", WastedAt |-> ZeroTime, DeliveredAt |-> ZeroTime]

IsZero(t) == t = ZeroTime

\* A faulty variant of DecayAmountOf: the time on overflow decays at twice the rate.
DecayAmountOfDoubled(R, r, t) ==
  IF IsZero(r.PlacedOnOverflow)
  THEN R * (t - r.PlacedOnShelfAt)
  ELSE R * (r.PlacedOnOverflow - r.PlacedOnShelfAt) + (R * 2) * (t - r.PlacedOnOverflow)

\* decayAmount of an order with decay rate R and runtime fields r at time t.
DecayAmountOf(R, r, t) ==
  IF IsZero(r.PlacedOnOverflow)
  THEN R * (t - r.PlacedOnShelfAt)
  ELSE R * (r.PlacedOnOverflow - r.PlacedOnShelfAt) + R * (t - r.PlacedOnOverflow)

\* A faulty variant of CalculateValueOf: the test for an order that was never placed is
\* missing.
CalculateValueOfPlaced(L, R, r, t) ==
  LET remainingShelfLife == L - DecayAmountOf(R, r, t)
  IN  IF remainingShelfLife <= 0 THEN <<0, 1>> ELSE <<remainingShelfLife, L>>

\* CalculateValue of an order with shelf life L and decay rate R, as the fraction
\* <<numerator, denominator>>: remainingShelfLife / ShelfLife.
CalculateValueOf(L, R, r, t) ==
  IF IsZero(r.PlacedOnShelfAt) THEN <<1, 1>>
  ELSE LET remainingShelfLife == L - DecayAmountOf(R, r, t)
       IN  IF remainingShelfLife <= 0 THEN <<0, 1>>
           ELSE <<remainingShelfLife, L>>

\* value <= 0 for the fraction v: a zero numerator, or a positive numerator over a
\* negative shelf life (over a zero shelf life the quotient is +Inf).
NotPositive(v) == v[1] <= 0 \/ v[2] < 0

\* A faulty variant of IsExpiredOf: a value of exactly 0 does not count as expired.
IsExpiredOfStrict(L, R, r, t) == CalculateValueOf(L, R, r, t)[1] < 0

IsExpiredOf(L, R, r, t) == NotPositive(CalculateValueOf(L, R, r, t))

\* The same for order o of the pool.
DecayAmount(o, r, t) == DecayAmountOf(DecayRateOf(o), r, t)
CalculateValue(o, r, t) == CalculateValueOf(ShelfLifeOf(o), DecayRateOf(o), r, t)
IsExpired(o, r, t) == IsExpiredOf(ShelfLifeOf(o), DecayRateOf(o), r, t)

\* ------------------------------------------------------------- shelf.go
HotShelf == "hot"
ColdShelf == "cold"
FrozenShelf == "frozen"
OverflowShelf == "overflow"
ShelfTypes == {HotShelf, ColdShelf, FrozenShelf, OverflowShelf}
NoShelf == "nil"

\* NewShelf(shelfType, capacity): each shelf is configured with its own capacity; the
\* cold shelf has one slot more than the others, so that a shelf which holds an order
\* and still has room exists at the smallest capacity.
Capacity(s) == IF s = ColdShelf THEN ShelfCapacity + 1 ELSE ShelfCapacity

ShelfStats ==
  [OrdersAdded |-> 0, OrdersRemoved |-> 0, OrdersWasted |-> 0,
   OrdersDelivered |-> 0, PeakUsage |-> 0]

EmptyOrders == [id \in IDs |-> NoOrder]

VARIABLES
  now,                  \* the last reading of time.Now()
  ord,                  \* runtime fields of every order object
  shelf,                \* Shelf.Orders of each shelf: identifier -> order
  stats,                \* Shelf.stats of each shelf
  smutex,               \* Shelf.mutex of each shelf: the holder
  mutex,                \* ShelfManager.mutex: the holder
  TotalOrdersReceived,
  TotalOrdersDelivered,
  TotalOrdersExpired,
  TotalOrdersWasted,
  thr,                  \* each thread's position and locals
  pre,                  \* the state a call saw when it took the manager lock
  hist,                 \* calls made and results returned so far
  calc,                 \* an order under evaluation: inputs and results of CalculateValue
  sim                   \* the Simulator: stop channel, wait group, goroutines' positions

vars ==
  <<now, ord, shelf, stats, smutex, mutex, TotalOrdersReceived,
    TotalOrdersDelivered, TotalOrdersExpired, TotalOrdersWasted, thr, pre, hist,
    calc, sim>>

totals ==
  <<TotalOrdersReceived, TotalOrdersDelivered, TotalOrdersExpired, TotalOrdersWasted>>

Keys(m) == {id \in IDs : m[id] # NoOrder}
Len_(m) == Cardinality(Keys(m))
Size(s) == Len_(shelf[s])
IsFull(s) == Len_(shelf[s]) >= Capacity(s)
GetOrder(s, id) == shelf[s][id]

\* What GetStats and GetAllOrders have collected so far: nothing yet.
NoResult == <<>>

Idle ==
  [pc |-> "idle", op |-> "", arg |-> 0, shelf |-> NoShelf, idx |-> 0,
   ret |-> FALSE, expiredCount |-> 0, result |-> NoResult]

NoPre == <<>>
NoCalc == <<>>

Snapshot ==
  [now |-> now, shelf |-> shelf, stats |-> stats, ord |-> ord,
   received |-> TotalOrdersReceived, delivered |-> TotalOrdersDelivered,
   expired |-> TotalOrdersExpired, wasted |-> TotalOrdersWasted]

\* NewShelfManager: four empty shelves, zero totals, nothing locked, no call made.
InitManager ==
  /\ now = 1
  /\ ord = [o \in Orders |-> NewOrder]
  /\ shelf = [s \in ShelfTypes |-> EmptyOrders]
  /\ stats = [s \in ShelfTypes |-> ShelfStats]
  /\ smutex = [s \in ShelfTypes |-> NoThread]
  /\ mutex = NoThread
  /\ TotalOrdersReceived = 0
  /\ TotalOrdersDelivered = 0
  /\ TotalOrdersExpired = 0
  /\ TotalOrdersWasted = 0
  /\ thr = [t \in Threads |-> Idle]
  /\ pre = [t \in Threads |-> NoPre]
  /\ hist = [calls |-> 0, placeCalls |-> 0, placeTrue |-> 0, placeFalse |-> 0,
             placed |-> [o \in Orders |-> 0],
             deliveredTrue |-> [id \in IDs |-> 0],
             residentPlaced |-> FALSE]

\* No Simulator has been constructed.
NoSim == <<>>

Init == InitManager /\ calc = NoCalc /\ sim = NoSim


\* A faulty variant of GetShelfForTemperature: hot orders are sent to the cold shelf.
GetShelfForTemperatureSwapped(temp) ==
  CASE temp = Hot -> ColdShelf
    [] temp = Cold -> HotShelf
    [] temp = Frozen -> FrozenShelf
    [] OTHER -> NoShelf

\* ------------------------------------------------------------- manager.go
GetShelfForTemperature(temp) ==
  CASE temp = Hot -> HotShelf
    [] temp = Cold -> ColdShelf
    [] temp = Frozen -> FrozenShelf
    [] OTHER -> NoShelf

\* The order in which DeliverOrder, RemoveExpiredOrders and GetStats visit the shelves.
ShelfOrder == <<HotShelf, ColdShelf, FrozenShelf, OverflowShelf>>

Min(a, b) == IF a < b THEN a ELSE b

Resident(id) == {s \in ShelfTypes : shelf[s][id] # NoOrder}

\* The callers are interchangeable goroutines: a new call is made by the first free
\* one, and MaxCalls calls are made in all.
CanCall(t) ==
  /\ thr[t].pc = "idle"
  /\ \A u \in Threads : u < t => thr[u].pc # "idle"
  /\ hist.calls < MaxCalls

\* time.Now(): a reading of the clock, never earlier than the reading before it
\* (calls are made up to MaxTime; where the clock runs on after that, it is read as
\* it stands).
TimeNow(t) == t \in now .. (IF now > MaxTime THEN now ELSE MaxTime)

\* A thread calls PlaceOrder(order): it is about to take the manager lock.
CallPlaceOrder(t, o) ==
  /\ CanCall(t)
  /\ thr' = [thr EXCEPT ![t] = [Idle EXCEPT !.pc = "mlock", !.op = "PlaceOrder", !.arg = o]]
  /\ hist' = [hist EXCEPT !.calls = @ + 1, !.placeCalls = @ + 1,
                          !.placed[o] = Min(@ + 1, 2)]
  /\ UNCHANGED <<sim, calc, now, ord, shelf, stats, smutex, mutex, totals, pre>>

CallDeliverOrder(t, id) ==
  /\ CanCall(t)
  /\ thr' = [thr EXCEPT ![t] = [Idle EXCEPT !.pc = "mlock", !.op = "DeliverOrder", !.arg = id]]
  /\ hist' = [hist EXCEPT !.calls = @ + 1]
  /\ UNCHANGED <<sim, calc, now, ord, shelf, stats, smutex, mutex, totals, pre>>

CallRemoveExpiredOrders(t) ==
  /\ CanCall(t)
  /\ thr' = [thr EXCEPT ![t] = [Idle EXCEPT !.pc = "mlock", !.op = "RemoveExpiredOrders"]]
  /\ hist' = [hist EXCEPT !.calls = @ + 1]
  /\ UNCHANGED <<sim, calc, now, ord, shelf, stats, smutex, mutex, totals, pre>>

\* The position of a method right after sm.mutex.Lock().
FirstPc(op) ==
  CASE op = "PlaceOrder" -> "place"
    [] op = "DeliverOrder" -> "get"
    [] op = "RemoveExpiredOrders" -> "sweep"
    [] op = "GetStats" -> "size"
    [] op = "GetAllOrders" -> "all"

FirstShelf(op) == IF op = "PlaceOrder" THEN NoShelf ELSE ShelfOrder[1]

\* sm.mutex.Lock()
LockManager(t) ==
  /\ thr[t].pc = "mlock"
  /\ mutex = NoThread
  /\ mutex' = t
  /\ thr' = [thr EXCEPT ![t].pc = FirstPc(thr[t].op),
                        ![t].shelf = FirstShelf(thr[t].op),
                        ![t].idx = IF thr[t].op = "PlaceOrder" THEN 0 ELSE 1]
  /\ pre' = [pre EXCEPT ![t] = Snapshot]
  /\ hist' = [hist EXCEPT !.residentPlaced =
                @ \/ (thr[t].op = "PlaceOrder" /\ Resident(IDOf(thr[t].arg)) # {})]
  /\ UNCHANGED <<sim, calc, now, ord, shelf, stats, smutex, totals>>

\* The positions at which a thread is calling a method of thr[t].shelf.
ShelfCallPcs ==
  {"add_primary", "add_overflow", "get", "mark", "sweep", "add", "size", "stats", "all",
   "remove", "mark_delivered", "remove_expired"}

\* s.mutex.Lock() of any Shelf method
ShelfLock(t) ==
  /\ thr[t].pc \in ShelfCallPcs
  /\ smutex[thr[t].shelf] = NoThread
  /\ smutex' = [smutex EXCEPT ![thr[t].shelf] = t]
  /\ UNCHANGED <<sim, calc, now, ord, shelf, stats, mutex, totals, thr, pre, hist>>

\* A faulty variant of PlaceOrderBegin: an order of an unrecognized class is not counted
\* as received.
PlaceOrderBeginUncounted(t) ==
  /\ thr[t].pc = "place"
  /\ LET primaryShelf == GetShelfForTemperature(TempOf(thr[t].arg))
     IN  IF primaryShelf = NoShelf
         THEN /\ TotalOrdersWasted' = TotalOrdersWasted + 1
              /\ thr' = [thr EXCEPT ![t].pc = "unlock", ![t].ret = FALSE]
              /\ UNCHANGED TotalOrdersReceived
         ELSE /\ thr' = [thr EXCEPT ![t].pc = "add_primary", ![t].shelf = primaryShelf]
              /\ TotalOrdersReceived' = TotalOrdersReceived + 1
              /\ UNCHANGED TotalOrdersWasted
  /\ UNCHANGED <<sim, calc, now, ord, shelf, stats, smutex, mutex, TotalOrdersDelivered,
                 TotalOrdersExpired, pre, hist>>

\* PlaceOrder up to the call of primaryShelf.AddOrder.
PlaceOrderBegin(t) ==
  /\ thr[t].pc = "place"
  /\ TotalOrdersReceived' = TotalOrdersReceived + 1
  /\ LET primaryShelf == GetShelfForTemperature(TempOf(thr[t].arg))
     IN  IF primaryShelf = NoShelf
         THEN /\ TotalOrdersWasted' = TotalOrdersWasted + 1
              /\ thr' = [thr EXCEPT ![t].pc = "unlock", ![t].ret = FALSE]
         ELSE /\ thr' = [thr EXCEPT ![t].pc = "add_primary", ![t].shelf = primaryShelf]
              /\ UNCHANGED TotalOrdersWasted
  /\ UNCHANGED <<sim, calc, now, ord, shelf, stats, smutex, mutex, TotalOrdersDelivered,
                 TotalOrdersExpired, pre, hist>>

\* A faulty variant of AddOrderRejects: the capacity test is off by one.
AddOrderRejectsOffByOne(s) == Len_(shelf[s]) > Capacity(s)

\* Shelf.AddOrder: the capacity test.
AddOrderRejects(s) == Len_(shelf[s]) >= Capacity(s)

\* A faulty variant of AddOrderFields: every insertion restarts the decay clock.
AddOrderFieldsRestamps(s, r) ==
  [r EXCEPT !.PlacedOnShelfAt = now',
            !.CurrentShelfType = s,
            !.PlacedOnOverflow = IF s = OverflowShelf /\ IsZero(@) THEN now' ELSE @]

\* Shelf.AddOrder: the order's fields after a successful insertion into shelf s.
AddOrderFields(s, r) ==
  [r EXCEPT !.PlacedOnShelfAt = IF IsZero(@) THEN now' ELSE @,
            !.CurrentShelfType = s,
            !.PlacedOnOverflow = IF s = OverflowShelf /\ IsZero(@) THEN now' ELSE @]

\* Shelf.AddOrder: the key the order is stored under.
AddOrderKey(o) == IDOf(o)

\* A faulty variant of AddOrderInsert: an identifier the shelf already holds is not
\* counted again.
AddOrderInsertCountsNew(s, o) ==
  LET orders == [shelf[s] EXCEPT ![AddOrderKey(o)] = o]
      added == IF shelf[s][AddOrderKey(o)] = NoOrder THEN 1 ELSE 0
  IN  /\ TimeNow(now')
      /\ ord' = [ord EXCEPT ![o] = AddOrderFields(s, @)]
      /\ shelf' = [shelf EXCEPT ![s] = orders]
      /\ stats' = [stats EXCEPT ![s].OrdersAdded = @ + added,
                                ![s].PeakUsage = IF Len_(orders) > @ THEN Len_(orders) ELSE @]

\* A faulty variant of AddOrderInsert: the peak is not updated.
AddOrderInsertNoPeak(s, o) ==
  LET orders == [shelf[s] EXCEPT ![AddOrderKey(o)] = o]
  IN  /\ TimeNow(now')
      /\ ord' = [ord EXCEPT ![o] = AddOrderFields(s, @)]
      /\ shelf' = [shelf EXCEPT ![s] = orders]
      /\ stats' = [stats EXCEPT ![s].OrdersAdded = @ + 1]

\* Shelf.AddOrder: the insertion, when the shelf has room.
AddOrderInsert(s, o) ==
  LET orders == [shelf[s] EXCEPT ![AddOrderKey(o)] = o]
  IN  /\ TimeNow(now')
      /\ ord' = [ord EXCEPT ![o] = AddOrderFields(s, @)]
      /\ shelf' = [shelf EXCEPT ![s] = orders]
      /\ stats' = [stats EXCEPT ![s].OrdersAdded = @ + 1,
                                ![s].PeakUsage = IF Len_(orders) > @ THEN Len_(orders) ELSE @]

\* A faulty variant of PlaceOrderPrimary: the return after a successful insertion is missing,
\* so the order goes on to the overflow shelf as well.
PlaceOrderPrimaryFallsThrough(t) ==
  LET s == thr[t].shelf
  IN  /\ thr[t].pc = "add_primary"
      /\ smutex[s] = t
      /\ smutex' = [smutex EXCEPT ![s] = NoThread]
      /\ thr' = [thr EXCEPT ![t].pc = "add_overflow", ![t].shelf = OverflowShelf]
      /\ IF AddOrderRejects(s)
         THEN UNCHANGED <<now, ord, shelf, stats>>
         ELSE AddOrderInsert(s, thr[t].arg)
      /\ UNCHANGED <<sim, calc, mutex, totals, pre, hist>>

\* if primaryShelf.AddOrder(order) { return true }
PlaceOrderPrimary(t) ==
  LET s == thr[t].shelf
  IN  /\ thr[t].pc = "add_primary"
      /\ smutex[s] = t
      /\ smutex' = [smutex EXCEPT ![s] = NoThread]
      /\ IF AddOrderRejects(s)
         THEN /\ thr' = [thr EXCEPT ![t].pc = "add_overflow", ![t].shelf = OverflowShelf]
              /\ UNCHANGED <<now, ord, shelf, stats>>
         ELSE /\ AddOrderInsert(s, thr[t].arg)
              /\ thr' = [thr EXCEPT ![t].pc = "unlock", ![t].ret = TRUE]
      /\ UNCHANGED <<sim, calc, mutex, totals, pre, hist>>

\* if sm.OverflowShelf.AddOrder(order) { ... }
PlaceOrderOverflow(t) ==
  LET s == thr[t].shelf
  IN  /\ thr[t].pc = "add_overflow"
      /\ smutex[s] = t
      /\ smutex' = [smutex EXCEPT ![s] = NoThread]
      /\ IF AddOrderRejects(s)
         THEN /\ thr' = [thr EXCEPT ![t].pc = "waste"]
              /\ UNCHANGED <<now, ord, shelf, stats>>
         ELSE /\ AddOrderInsert(s, thr[t].arg)
              /\ thr' = [thr EXCEPT ![t].pc = "overflow_ts"]
      /\ UNCHANGED <<sim, calc, mutex, totals, pre, hist>>

\* order.PlacedOnOverflow = time.Now(); return true
PlaceOrderOverflowStamp(t) ==
  /\ thr[t].pc = "overflow_ts"
  /\ TimeNow(now')
  /\ ord' = [ord EXCEPT ![thr[t].arg].PlacedOnOverflow = now']
  /\ thr' = [thr EXCEPT ![t].pc = "unlock", ![t].ret = TRUE]
  /\ UNCHANGED <<sim, calc, shelf, stats, smutex, mutex, totals, pre, hist>>

\* A faulty variant of PlaceOrderWaste: the rejection is not counted.
PlaceOrderWasteNotCounted(t) ==
  /\ thr[t].pc = "waste"
  /\ TimeNow(now')
  /\ ord' = [ord EXCEPT ![thr[t].arg].WastedAt = now']
  /\ thr' = [thr EXCEPT ![t].pc = "unlock", ![t].ret = FALSE]
  /\ UNCHANGED <<sim, calc, shelf, stats, smutex, mutex, totals, pre, hist>>

\* sm.TotalOrdersWasted++; order.WastedAt = time.Now(); return false
PlaceOrderWaste(t) ==
  /\ thr[t].pc = "waste"
  /\ TotalOrdersWasted' = TotalOrdersWasted + 1
  /\ TimeNow(now')
  /\ ord' = [ord EXCEPT ![thr[t].arg].WastedAt = now']
  /\ thr' = [thr EXCEPT ![t].pc = "unlock", ![t].ret = FALSE]
  /\ UNCHANGED <<sim, calc, shelf, stats, smutex, mutex, TotalOrdersReceived,
                 TotalOrdersDelivered, TotalOrdersExpired, pre, hist>>


\* A faulty variant of NextDeliverShelf: DeliverOrder returns true after the last shelf.
NextDeliverShelfTrue(t) ==
  IF thr[t].idx < Len(ShelfOrder)
  THEN [thr EXCEPT ![t].pc = "get", ![t].idx = @ + 1, ![t].shelf = ShelfOrder[thr[t].idx + 1]]
  ELSE [thr EXCEPT ![t].pc = "unlock", ![t].ret = TRUE]

\* DeliverOrder's || chain: after shelf number idx has not delivered, try the next one,
\* and return false after the last.
NextDeliverShelf(t) ==
  IF thr[t].idx < Len(ShelfOrder)
  THEN [thr EXCEPT ![t].pc = "get", ![t].idx = @ + 1, ![t].shelf = ShelfOrder[thr[t].idx + 1]]
  ELSE [thr EXCEPT ![t].pc = "unlock", ![t].ret = FALSE]

\* A faulty variant of DeliverFromShelf: an order that has expired is treated as absent.
DeliverFromShelfFreshOnly(t) ==
  LET s == thr[t].shelf
      o == GetOrder(s, thr[t].arg)
  IN  /\ thr[t].pc = "get"
      /\ smutex[s] = t
      /\ smutex' = [smutex EXCEPT ![s] = NoThread]
      /\ thr' = IF o # NoOrder /\ ~IsExpired(o, ord[o], now)
                THEN [thr EXCEPT ![t].pc = "mark"]
                ELSE NextDeliverShelf(t)
      /\ UNCHANGED <<sim, calc, now, ord, shelf, stats, mutex, totals, pre, hist>>

\* deliverFromShelf: if order := shelf.GetOrder(orderID); order != nil
DeliverFromShelf(t) ==
  LET s == thr[t].shelf
  IN  /\ thr[t].pc = "get"
      /\ smutex[s] = t
      /\ smutex' = [smutex EXCEPT ![s] = NoThread]
      /\ thr' = IF GetOrder(s, thr[t].arg) # NoOrder
                THEN [thr EXCEPT ![t].pc = "mark"]
                ELSE NextDeliverShelf(t)
      /\ UNCHANGED <<sim, calc, now, ord, shelf, stats, mutex, totals, pre, hist>>

\* A faulty variant of MarkOrderDelivered: order.DeliveredAt is not set.
MarkOrderDeliveredNoStamp(t) ==
  LET s == thr[t].shelf
      id == thr[t].arg
      order == shelf[s][id]
  IN  /\ thr[t].pc = "mark"
      /\ smutex[s] = t
      /\ smutex' = [smutex EXCEPT ![s] = NoThread]
      /\ IF order = NoOrder
         THEN /\ thr' = NextDeliverShelf(t)
              /\ UNCHANGED <<shelf, stats>>
         ELSE /\ shelf' = [shelf EXCEPT ![s][id] = NoOrder]
              /\ stats' = [stats EXCEPT ![s].OrdersDelivered = @ + 1,
                                        ![s].OrdersRemoved = @ + 1]
              /\ thr' = [thr EXCEPT ![t].pc = "delivered"]
      /\ UNCHANGED <<sim, calc, now, ord, mutex, totals, pre, hist>>

\* A faulty variant of MarkOrderDelivered: the order is not deleted from the shelf.
MarkOrderDeliveredKeeps(t) ==
  LET s == thr[t].shelf
      id == thr[t].arg
      order == shelf[s][id]
  IN  /\ thr[t].pc = "mark"
      /\ smutex[s] = t
      /\ smutex' = [smutex EXCEPT ![s] = NoThread]
      /\ IF order = NoOrder
         THEN /\ thr' = NextDeliverShelf(t)
              /\ UNCHANGED <<now, ord, stats>>
         ELSE /\ TimeNow(now')
              /\ ord' = [ord EXCEPT ![order].DeliveredAt = now']
              /\ stats' = [stats EXCEPT ![s].OrdersDelivered = @ + 1,
                                        ![s].OrdersRemoved = @ + 1]
              /\ thr' = [thr EXCEPT ![t].pc = "delivered"]
      /\ UNCHANGED <<sim, calc, shelf, mutex, totals, pre, hist>>

\* A faulty variant of MarkOrderDelivered: the slot freed on a primary shelf is filled
\* with an order of that temperature taken from the overflow shelf.
MarkOrderDeliveredRebalances(t) ==
  LET s == thr[t].shelf
      id == thr[t].arg
      order == shelf[s][id]
      waiting == {x \in Keys(shelf[OverflowShelf]) :
                    GetShelfForTemperature(TempOf(shelf[OverflowShelf][x])) = s}
  IN  /\ thr[t].pc = "mark"
      /\ smutex[s] = t
      /\ smutex' = [smutex EXCEPT ![s] = NoThread]
      /\ IF order = NoOrder
         THEN /\ thr' = NextDeliverShelf(t)
              /\ UNCHANGED <<now, ord, shelf, stats>>
         ELSE /\ TimeNow(now')
              /\ IF waiting = {}
                 THEN /\ shelf' = [shelf EXCEPT ![s][id] = NoOrder]
                      /\ ord' = [ord EXCEPT ![order].DeliveredAt = now']
                 ELSE LET x == CHOOSE x \in waiting : TRUE
                          moved == shelf[OverflowShelf][x]
                      IN  /\ shelf' = [shelf EXCEPT ![s][id] = NoOrder,
                                                    ![s][x] = moved,
                                                    ![OverflowShelf][x] = NoOrder]
                          /\ ord' = [ord EXCEPT ![order].DeliveredAt = now',
                                                ![moved].CurrentShelfType = s]
              /\ stats' = [stats EXCEPT ![s].OrdersDelivered = @ + 1,
                                        ![s].OrdersRemoved = @ + 1]
              /\ thr' = [thr EXCEPT ![t].pc = "delivered"]
      /\ UNCHANGED <<sim, calc, mutex, totals, pre, hist>>

\* Shelf.MarkOrderDelivered, called by deliverFromShelf.
MarkOrderDelivered(t) ==
  LET s == thr[t].shelf
      id == thr[t].arg
      order == shelf[s][id]
  IN  /\ thr[t].pc = "mark"
      /\ smutex[s] = t
      /\ smutex' = [smutex EXCEPT ![s] = NoThread]
      /\ IF order = NoOrder
         THEN /\ thr' = NextDeliverShelf(t)
              /\ UNCHANGED <<now, ord, shelf, stats>>
         ELSE /\ TimeNow(now')
              /\ shelf' = [shelf EXCEPT ![s][id] = NoOrder]
              /\ ord' = [ord EXCEPT ![order].DeliveredAt = now']
              /\ stats' = [stats EXCEPT ![s].OrdersDelivered = @ + 1,
                                        ![s].OrdersRemoved = @ + 1]
              /\ thr' = [thr EXCEPT ![t].pc = "delivered"]
      /\ UNCHANGED <<sim, calc, mutex, totals, pre, hist>>

\* A faulty variant of DeliverOrderCount: the delivery is not counted in the total.
DeliverOrderCountUncounted(t) ==
  /\ thr[t].pc = "delivered"
  /\ TotalOrdersDelivered' = TotalOrdersDelivered
  /\ thr' = [thr EXCEPT ![t].pc = "unlock", ![t].ret = TRUE]
  /\ UNCHANGED <<sim, calc, now, ord, shelf, stats, smutex, mutex, TotalOrdersReceived,
                 TotalOrdersExpired, TotalOrdersWasted, pre, hist>>

\* sm.TotalOrdersDelivered++; return true
DeliverOrderCount(t) ==
  /\ thr[t].pc = "delivered"
  /\ TotalOrdersDelivered' = TotalOrdersDelivered + 1
  /\ thr' = [thr EXCEPT ![t].pc = "unlock", ![t].ret = TRUE]
  /\ UNCHANGED <<sim, calc, now, ord, shelf, stats, smutex, mutex, TotalOrdersReceived,
                 TotalOrdersExpired, TotalOrdersWasted, pre, hist>>

\* A faulty variant of ExpiredKeys: the loop deletes every order of the shelf.
ExpiredKeysAll(s, t) == Keys(shelf[s])

\* Shelf.RemoveExpiredOrders: the identifiers the range loop deletes.
ExpiredKeys(s, t) == {id \in Keys(shelf[s]) : IsExpired(shelf[s][id], ord[shelf[s][id]], t)}

\* A faulty variant of ShelfRemoveExpiredOrders: expired orders are stamped but left on the shelf.
ShelfRemoveExpiredOrdersKeeps(t) ==
  LET s == thr[t].shelf
      gone == ExpiredKeys(s, now')
      goneOrders == {shelf[s][id] : id \in gone}
  IN  /\ thr[t].pc = "sweep"
      /\ smutex[s] = t
      /\ TimeNow(now')
      /\ smutex' = [smutex EXCEPT ![s] = NoThread]
      /\ ord' = [o \in Orders |-> IF o \in goneOrders THEN [ord[o] EXCEPT !.WastedAt = now']
                                  ELSE ord[o]]
      /\ stats' = [stats EXCEPT ![s].OrdersWasted = @ + Cardinality(gone)]
      /\ thr' = IF thr[t].idx < Len(ShelfOrder)
                THEN [thr EXCEPT ![t].expiredCount = @ + Cardinality(gone),
                                 ![t].idx = @ + 1,
                                 ![t].shelf = ShelfOrder[thr[t].idx + 1]]
                ELSE [thr EXCEPT ![t].expiredCount = @ + Cardinality(gone),
                                 ![t].pc = "sweep_total"]
      /\ UNCHANGED <<sim, calc, shelf, mutex, totals, pre, hist>>

\* A faulty variant of ShelfRemoveExpiredOrders: the overflow shelf is not swept.
ShelfRemoveExpiredOrdersPrimaryOnly(t) ==
  LET s == thr[t].shelf
      gone == IF s = OverflowShelf THEN {} ELSE ExpiredKeys(s, now')
      goneOrders == {shelf[s][id] : id \in gone}
  IN  /\ thr[t].pc = "sweep"
      /\ smutex[s] = t
      /\ TimeNow(now')
      /\ smutex' = [smutex EXCEPT ![s] = NoThread]
      /\ shelf' = [shelf EXCEPT ![s] = [id \in IDs |-> IF id \in gone THEN NoOrder ELSE @[id]]]
      /\ ord' = [o \in Orders |-> IF o \in goneOrders THEN [ord[o] EXCEPT !.WastedAt = now']
                                  ELSE ord[o]]
      /\ stats' = [stats EXCEPT ![s].OrdersWasted = @ + Cardinality(gone)]
      /\ thr' = IF thr[t].idx < Len(ShelfOrder)
                THEN [thr EXCEPT ![t].expiredCount = @ + Cardinality(gone),
                                 ![t].idx = @ + 1,
                                 ![t].shelf = ShelfOrder[thr[t].idx + 1]]
                ELSE [thr EXCEPT ![t].expiredCount = @ + Cardinality(gone),
                                 ![t].pc = "sweep_total"]
      /\ UNCHANGED <<sim, calc, mutex, totals, pre, hist>>

\* expiredCount += <shelf>.RemoveExpiredOrders(), for the shelf number idx.
ShelfRemoveExpiredOrders(t) ==
  LET s == thr[t].shelf
      gone == ExpiredKeys(s, now')
      goneOrders == {shelf[s][id] : id \in gone}
  IN  /\ thr[t].pc = "sweep"
      /\ smutex[s] = t
      /\ TimeNow(now')
      /\ smutex' = [smutex EXCEPT ![s] = NoThread]
      /\ shelf' = [shelf EXCEPT ![s] = [id \in IDs |-> IF id \in gone THEN NoOrder ELSE @[id]]]
      /\ ord' = [o \in Orders |-> IF o \in goneOrders THEN [ord[o] EXCEPT !.WastedAt = now']
                                  ELSE ord[o]]
      /\ stats' = [stats EXCEPT ![s].OrdersWasted = @ + Cardinality(gone)]
      /\ thr' = IF thr[t].idx < Len(ShelfOrder)
                THEN [thr EXCEPT ![t].expiredCount = @ + Cardinality(gone),
                                 ![t].idx = @ + 1,
                                 ![t].shelf = ShelfOrder[thr[t].idx + 1]]
                ELSE [thr EXCEPT ![t].expiredCount = @ + Cardinality(gone),
                                 ![t].pc = "sweep_total"]
      /\ UNCHANGED <<sim, calc, mutex, totals, pre, hist>>

\* A faulty variant of RemoveExpiredOrdersTotal: the sweep's count is not added to the total.
RemoveExpiredOrdersTotalForgets(t) ==
  /\ thr[t].pc = "sweep_total"
  /\ thr' = [thr EXCEPT ![t].pc = "unlock"]
  /\ UNCHANGED <<sim, calc, now, ord, shelf, stats, smutex, mutex, totals, pre, hist>>

\* sm.TotalOrdersExpired += expiredCount; return expiredCount
RemoveExpiredOrdersTotal(t) ==
  /\ thr[t].pc = "sweep_total"
  /\ TotalOrdersExpired' = TotalOrdersExpired + thr[t].expiredCount
  /\ thr' = [thr EXCEPT ![t].pc = "unlock"]
  /\ UNCHANGED <<sim, calc, now, ord, shelf, stats, smutex, mutex, TotalOrdersReceived,
                 TotalOrdersDelivered, TotalOrdersWasted, pre, hist>>

\* A faulty variant of Unlock: the call returns without releasing the manager lock.
UnlockKeepsLock(t) ==
  /\ thr[t].pc = "unlock"
  /\ hist' = [hist EXCEPT
       !.placeTrue = IF thr[t].op = "PlaceOrder" /\ thr[t].ret THEN @ + 1 ELSE @,
       !.placeFalse = IF thr[t].op = "PlaceOrder" /\ ~thr[t].ret THEN @ + 1 ELSE @,
       !.deliveredTrue = IF thr[t].op = "DeliverOrder" /\ thr[t].ret
                         THEN [@ EXCEPT ![thr[t].arg] = Min(@ + 1, 2)] ELSE @]
  /\ thr' = [thr EXCEPT ![t] = Idle]
  /\ pre' = [pre EXCEPT ![t] = NoPre]
  /\ UNCHANGED <<sim, calc, now, ord, shelf, stats, smutex, mutex, totals>>

\* defer sm.mutex.Unlock(): the call returns thr[t].ret (thr[t].expiredCount for a sweep).
Unlock(t) ==
  /\ thr[t].pc = "unlock"
  /\ mutex' = NoThread
  /\ hist' = [hist EXCEPT
       !.placeTrue = IF thr[t].op = "PlaceOrder" /\ thr[t].ret THEN @ + 1 ELSE @,
       !.placeFalse = IF thr[t].op = "PlaceOrder" /\ ~thr[t].ret THEN @ + 1 ELSE @,
       !.deliveredTrue = IF thr[t].op = "DeliverOrder" /\ thr[t].ret
                         THEN [@ EXCEPT ![thr[t].arg] = Min(@ + 1, 2)] ELSE @]
  /\ thr' = [thr EXCEPT ![t] = Idle]
  /\ pre' = [pre EXCEPT ![t] = NoPre]
  /\ UNCHANGED <<sim, calc, now, ord, shelf, stats, smutex, totals>>

Next ==
  \/ \E t \in Threads, o \in Orders : CallPlaceOrder(t, o)
  \/ \E t \in Threads, id \in IDs : CallDeliverOrder(t, id)
  \/ \E t \in Threads : CallRemoveExpiredOrders(t)
  \/ \E t \in Threads : LockManager(t)
  \/ \E t \in Threads : ShelfLock(t)
  \/ \E t \in Threads : PlaceOrderBegin(t)
  \/ \E t \in Threads : PlaceOrderPrimary(t)
  \/ \E t \in Threads : PlaceOrderOverflow(t)
  \/ \E t \in Threads : PlaceOrderOverflowStamp(t)
  \/ \E t \in Threads : PlaceOrderWaste(t)
  \/ \E t \in Threads : DeliverFromShelf(t)
  \/ \E t \in Threads : MarkOrderDelivered(t)
  \/ \E t \in Threads : DeliverOrderCount(t)
  \/ \E t \in Threads : ShelfRemoveExpiredOrders(t)
  \/ \E t \in Threads : RemoveExpiredOrdersTotal(t)
  \/ \E t \in Threads : Unlock(t)

Spec == Init /\ [][Next]_vars


\* ------------------------------------------------------------- properties
\* A call is about to return: everything it does is done, and it still holds the
\* manager lock (the deferred Unlock is its last step).
AtReturn(t, op) == thr[t].pc = "unlock" /\ thr[t].op = op

AllReturned == \A t \in Threads : thr[t].pc = "idle"

PrimaryTypes == {HotShelf, ColdShelf, FrozenShelf}
Recognized(o) == TempOf(o) \in {Hot, Cold, Frozen}
\* The shelf whose type is the order's temperature class.
PrimaryOf(o) == CHOOSE s \in PrimaryTypes : s = TempOf(o)

SumSizes(sh) ==
  Len_(sh[HotShelf]) + Len_(sh[ColdShelf]) + Len_(sh[FrozenShelf]) + Len_(sh[OverflowShelf])

ResidentIn(sh, id) == {s \in ShelfTypes : sh[s][id] # NoOrder}

\* No PlaceOrder call so far was given an order it was given before.
PlacedOnce(o) == hist.placed[o] <= 1
DistinctIdentifiers == \A o \in Orders : PlacedOnce(o)

\* C1: under any interleaving every shelf holds at most Capacity orders, and once
\* all calls have returned the PlaceOrder calls that returned true plus those that
\* returned false are the PlaceOrder calls made, which is TotalOrdersReceived.
C1_CapacityAndOutcomes ==
  /\ \A s \in ShelfTypes : Size(s) <= Capacity(s)
  /\ AllReturned =>
       /\ hist.placeTrue + hist.placeFalse = hist.placeCalls
       /\ hist.placeCalls = TotalOrdersReceived

C1_Witness ==
  /\ AllReturned
  /\ hist.placeCalls = 3 /\ hist.placeTrue = 2 /\ hist.placeFalse = 1
  /\ Size(HotShelf) = Capacity(HotShelf)
  /\ Size(OverflowShelf) = Capacity(OverflowShelf)

\* C2: with pairwise distinct identifiers, whenever the manager lock is free,
\* received = delivered + wasted + expired + the four shelves' sizes; an order that
\* is expired but not swept is among the resident ones.
C2_Conservation ==
  (DistinctIdentifiers /\ mutex = NoThread) =>
    TotalOrdersReceived =
      TotalOrdersDelivered + TotalOrdersWasted + TotalOrdersExpired + SumSizes(shelf)

C2_Witness ==
  /\ DistinctIdentifiers
  /\ mutex = NoThread
  /\ TotalOrdersDelivered = 1
  /\ TotalOrdersExpired = 0
  /\ \E s \in ShelfTypes, id \in IDs :
       /\ shelf[s][id] # NoOrder
       /\ IsExpired(shelf[s][id], ord[shelf[s][id]], now)


\* The outcome of a PlaceOrder call of a recognized class, decided by the state the
\* call saw: primary shelf if it had room, else overflow if it had room, else waste.
PlaceOutcome(t) ==
  LET p == pre[t]
      o == thr[t].arg
      id == IDOf(o)
      s == PrimaryOf(o)
      primaryRoom == Len_(p.shelf[s]) < Capacity(s)
      overflowRoom == Len_(p.shelf[OverflowShelf]) < Capacity(OverflowShelf)
  IN  /\ primaryRoom =>
           /\ thr[t].ret = TRUE
           /\ shelf[s][id] = o
           /\ \A x \in ShelfTypes \ {s} : shelf[x] = p.shelf[x]
           /\ TotalOrdersWasted = p.wasted
           /\ ord[o].WastedAt = p.ord[o].WastedAt
      /\ (~primaryRoom /\ overflowRoom) =>
           /\ thr[t].ret = TRUE
           /\ shelf[OverflowShelf][id] = o
           /\ \A x \in ShelfTypes \ {OverflowShelf} : shelf[x] = p.shelf[x]
           /\ TotalOrdersWasted = p.wasted
           /\ ord[o].WastedAt = p.ord[o].WastedAt
      /\ (~primaryRoom /\ ~overflowRoom) =>
           /\ thr[t].ret = FALSE
           /\ shelf = p.shelf
           /\ TotalOrdersWasted = p.wasted + 1
           /\ ~IsZero(ord[o].WastedAt)

\* C3 as amended: PlaceOrder of an order of a recognized class puts it on its primary
\* shelf if that had a free slot, else on overflow if that had a free slot (returning
\* true both times), else adds it to no shelf, increments TotalOrdersWasted, sets
\* WastedAt and returns false.  In the third case an order that was not resident
\* before the call is resident nowhere.
C3_PlaceOrderRouting ==
  \A t \in Threads :
    (AtReturn(t, "PlaceOrder") /\ Recognized(thr[t].arg)) =>
      /\ PlaceOutcome(t)
      /\ (thr[t].ret = FALSE /\ ResidentIn(pre[t].shelf, IDOf(thr[t].arg)) = {}) =>
           ResidentIn(shelf, IDOf(thr[t].arg)) = {}

\* C3 as stated: in the third case the order is resident nowhere.
C3_AsStated ==
  \A t \in Threads :
    (AtReturn(t, "PlaceOrder") /\ Recognized(thr[t].arg)) =>
      /\ PlaceOutcome(t)
      /\ thr[t].ret = FALSE => ResidentIn(shelf, IDOf(thr[t].arg)) = {}

\* Primary and overflow full, a third order of the class is turned away.
C3_Witness ==
  \E t \in Threads :
    /\ AtReturn(t, "PlaceOrder") /\ Recognized(thr[t].arg)
    /\ thr[t].ret = FALSE
    /\ ResidentIn(shelf, IDOf(thr[t].arg)) = {}
    /\ \E a, b \in Orders :
         /\ a # b
         /\ shelf[PrimaryOf(thr[t].arg)][IDOf(a)] = a
         /\ shelf[OverflowShelf][IDOf(b)] = b

\* C4: PlaceOrder with the class's primary shelf and the overflow shelf both at
\* capacity returns false, adds exactly 1 to TotalOrdersWasted and to
\* TotalOrdersReceived, and leaves every shelf's orders and statistics and the
\* delivered and expired totals as they were.
C4_PlaceOrderAllFull ==
  \A t \in Threads :
    LET p == pre[t]
        o == thr[t].arg
    IN  (/\ AtReturn(t, "PlaceOrder") /\ Recognized(o)
         /\ Len_(p.shelf[PrimaryOf(o)]) >= Capacity(PrimaryOf(o))
         /\ Len_(p.shelf[OverflowShelf]) >= Capacity(OverflowShelf)) =>
          /\ thr[t].ret = FALSE
          /\ TotalOrdersWasted = p.wasted + 1
          /\ TotalOrdersReceived = p.received + 1
          /\ shelf = p.shelf
          /\ stats = p.stats
          /\ TotalOrdersDelivered = p.delivered
          /\ TotalOrdersExpired = p.expired

C4_Witness ==
  \E t \in Threads :
    /\ AtReturn(t, "PlaceOrder") /\ Recognized(thr[t].arg)
    /\ Len_(pre[t].shelf[PrimaryOf(thr[t].arg)]) >= Capacity(PrimaryOf(thr[t].arg))
    /\ Len_(pre[t].shelf[OverflowShelf]) >= Capacity(OverflowShelf)
    /\ thr[t].ret = FALSE
    /\ TotalOrdersWasted = 1

\* C5: PlaceOrder of an order of an unrecognized class returns false, sets the
\* order's WastedAt, adds 1 to TotalOrdersReceived and to TotalOrdersWasted, and
\* puts the order on no shelf.
C5_UnrecognizedClassWasted ==
  \A t \in Threads :
    LET p == pre[t]
        o == thr[t].arg
    IN  (AtReturn(t, "PlaceOrder") /\ ~Recognized(o)) =>
          /\ thr[t].ret = FALSE
          /\ ~IsZero(ord[o].WastedAt)
          /\ TotalOrdersReceived = p.received + 1
          /\ TotalOrdersWasted = p.wasted + 1
          /\ shelf = p.shelf


\* The first shelf, in DeliverOrder's search order, that held the identifier.
FirstResident(sh, id) ==
  ShelfOrder[CHOOSE i \in 1 .. Len(ShelfOrder) :
               /\ sh[ShelfOrder[i]][id] # NoOrder
               /\ \A j \in 1 .. (i - 1) : sh[ShelfOrder[j]][id] = NoOrder]

\* What DeliverOrder(id) does for an identifier that some shelf holds.
DeliverOutcome(t) ==
  LET p == pre[t]
      id == thr[t].arg
      s == FirstResident(p.shelf, id)
      o == p.shelf[s][id]
  IN  /\ thr[t].ret = TRUE
      /\ shelf = [p.shelf EXCEPT ![s][id] = NoOrder]
      /\ SumSizes(shelf) = SumSizes(p.shelf) - 1
      /\ ord[o].DeliveredAt = now
      /\ TotalOrdersDelivered = p.delivered + 1
      /\ TotalOrdersReceived = p.received
      /\ TotalOrdersWasted = p.wasted
      /\ TotalOrdersExpired = p.expired

\* C6 as amended: DeliverOrder(id) for an identifier resident on a shelf returns
\* true, removes the order from exactly one shelf (the first that holds it; the sum
\* of the sizes drops by 1), sets DeliveredAt, adds 1 to TotalOrdersDelivered and
\* leaves the other three totals alone, on a primary shelf and on overflow alike;
\* the identifier is resident nowhere afterwards provided it was resident on one
\* shelf only.
C6_DeliverResident ==
  \A t \in Threads :
    (AtReturn(t, "DeliverOrder") /\ ResidentIn(pre[t].shelf, thr[t].arg) # {}) =>
      /\ DeliverOutcome(t)
      /\ Cardinality(ResidentIn(pre[t].shelf, thr[t].arg)) = 1 =>
           ResidentIn(shelf, thr[t].arg) = {}

\* C6 as stated: the identifier is resident on no shelf afterwards.
C6_AsStated ==
  \A t \in Threads :
    (AtReturn(t, "DeliverOrder") /\ ResidentIn(pre[t].shelf, thr[t].arg) # {}) =>
      /\ DeliverOutcome(t)
      /\ ResidentIn(shelf, thr[t].arg) = {}

\* An order is delivered from the overflow shelf.
C6_Witness ==
  \E t \in Threads :
    /\ AtReturn(t, "DeliverOrder")
    /\ ResidentIn(pre[t].shelf, thr[t].arg) = {OverflowShelf}
    /\ thr[t].ret = TRUE
    /\ ResidentIn(shelf, thr[t].arg) = {}
    /\ TotalOrdersDelivered = 1

\* C7: DeliverOrder(id) for an identifier resident on no shelf returns false and
\* changes nothing: the four totals, every shelf's orders and statistics (and every
\* order's fields) are as before the call.
C7_DeliverNotResident ==
  \A t \in Threads :
    LET p == pre[t]
    IN  (AtReturn(t, "DeliverOrder") /\ ResidentIn(p.shelf, thr[t].arg) = {}) =>
          /\ thr[t].ret = FALSE
          /\ TotalOrdersReceived = p.received
          /\ TotalOrdersDelivered = p.delivered
          /\ TotalOrdersExpired = p.expired
          /\ TotalOrdersWasted = p.wasted
          /\ shelf = p.shelf
          /\ stats = p.stats
          /\ ord = p.ord

\* An identifier that was never placed is asked for while other orders are resident.
C7_Witness ==
  \E t \in Threads :
    /\ AtReturn(t, "DeliverOrder")
    /\ ResidentIn(pre[t].shelf, thr[t].arg) = {}
    /\ thr[t].ret = FALSE
    /\ SumSizes(shelf) = 2


\* The state is as the call of thread t found it.
NothingChanged(t) ==
  /\ shelf = pre[t].shelf
  /\ stats = pre[t].stats
  /\ ord = pre[t].ord
  /\ TotalOrdersReceived = pre[t].received
  /\ TotalOrdersDelivered = pre[t].delivered
  /\ TotalOrdersExpired = pre[t].expired
  /\ TotalOrdersWasted = pre[t].wasted

\* The DeliverOrder(id) calls that have returned true or are about to.
DeliveredTrue(id) ==
  hist.deliveredTrue[id]
  + Cardinality({t \in Threads : AtReturn(t, "DeliverOrder") /\ thr[t].arg = id /\ thr[t].ret})

\* C8: for an identifier placed once, under any interleaving of DeliverOrder calls
\* and sweeps, at most one DeliverOrder(id) returns true, and a DeliverOrder(id)
\* that starts after the order was delivered or swept returns false and changes
\* nothing.
C8_DeliveredAtMostOnce ==
  \A o \in Orders :
    PlacedOnce(o) =>
      /\ DeliveredTrue(IDOf(o)) <= 1
      /\ \A t \in Threads :
           (/\ AtReturn(t, "DeliverOrder") /\ thr[t].arg = IDOf(o)
            /\ (~IsZero(pre[t].ord[o].DeliveredAt) \/ ~IsZero(pre[t].ord[o].WastedAt))) =>
             (thr[t].ret = FALSE /\ NothingChanged(t))

\* A second DeliverOrder of a delivered order returns false.
C8_Witness ==
  \E o \in Orders, t \in Threads :
    /\ PlacedOnce(o)
    /\ hist.deliveredTrue[IDOf(o)] = 1
    /\ AtReturn(t, "DeliverOrder") /\ thr[t].arg = IDOf(o)
    /\ ~IsZero(pre[t].ord[o].DeliveredAt)
    /\ thr[t].ret = FALSE

\* C9: an order placed at most once never has both DeliveredAt and WastedAt set, and
\* once it has either it is resident on no shelf, in every state of every
\* interleaving.
C9_TerminalExclusive ==
  \A o \in Orders :
    PlacedOnce(o) =>
      /\ ~(~IsZero(ord[o].DeliveredAt) /\ ~IsZero(ord[o].WastedAt))
      /\ (~IsZero(ord[o].DeliveredAt) \/ ~IsZero(ord[o].WastedAt)) => Resident(IDOf(o)) = {}

\* An expired order was delivered before the sweep got to it: the sweep has run and
\* the order is delivered, not wasted.
C9_Witness ==
  \E o \in Orders, u \in Threads :
    /\ PlacedOnce(o)
    /\ ~IsZero(ord[o].DeliveredAt)
    /\ IsExpired(o, ord[o], ord[o].DeliveredAt)
    /\ IsZero(ord[o].WastedAt)
    /\ AtReturn(u, "RemoveExpiredOrders")
    /\ ~IsZero(pre[u].ord[o].DeliveredAt)

\* C10: provided no PlaceOrder call was given an order whose identifier was resident,
\* every identifier is a key of at most one shelf, every resident order is stored
\* under its own identifier, and its CurrentShelfType is the shelf that holds it.
C10_UniqueResidency ==
  ~hist.residentPlaced =>
    /\ \A id \in IDs : Cardinality(Resident(id)) <= 1
    /\ \A s \in ShelfTypes, id \in IDs :
         shelf[s][id] # NoOrder =>
           /\ IDOf(shelf[s][id]) = id
           /\ ord[shelf[s][id]].CurrentShelfType = s

\* An order that was delivered is placed again and is resident once more, next to
\* nothing else of its identifier.
C10_Witness ==
  /\ ~hist.residentPlaced
  /\ AllReturned
  /\ \E o \in Orders :
       /\ hist.placed[o] = 2
       /\ Cardinality(Resident(IDOf(o))) = 1

\* What ShelfManager.RemoveExpiredOrders has done when it returns, against the state
\* and the clock it found.
SweepOutcome(t) ==
  LET p == pre[t]
  IN  /\ \A s \in ShelfTypes, id \in IDs :
           LET o == p.shelf[s][id]
           IN  o # NoOrder =>
                 /\ IsExpired(o, p.ord[o], p.now) =>
                      (ResidentIn(shelf, id) = {} /\ ~IsZero(ord[o].WastedAt))
                 /\ shelf[s][id] = NoOrder =>
                      /\ ord[o].WastedAt >= p.now
                      /\ IsExpired(o, p.ord[o], ord[o].WastedAt)
                 /\ ~IsExpired(o, p.ord[o], now) =>
                      (shelf[s][id] = o /\ ord[o] = p.ord[o])
      /\ \A s \in ShelfTypes, id \in IDs :
           shelf[s][id] # NoOrder => shelf[s][id] = p.shelf[s][id]
      /\ thr[t].expiredCount = SumSizes(p.shelf) - SumSizes(shelf)
      /\ TotalOrdersExpired = p.expired + thr[t].expiredCount
      /\ TotalOrdersWasted = p.wasted

\* C11: when ShelfManager.RemoveExpiredOrders returns, every order that was resident
\* and expired when the call started is resident nowhere and has WastedAt set; every
\* order the call removed was expired when its shelf was swept; the orders that are
\* not expired are on their shelf with their fields unchanged; the returned number is
\* the number of orders removed, TotalOrdersExpired has grown by it and
\* TotalOrdersWasted has not changed.
C11_RemoveExpiredOrders ==
  \A t \in Threads : AtReturn(t, "RemoveExpiredOrders") => SweepOutcome(t)

\* A sweep removes an order that expired after the sweep began and leaves a fresh
\* order where it was.
C11_Witness ==
  \E t \in Threads, a, b \in Orders :
    /\ AtReturn(t, "RemoveExpiredOrders")
    /\ thr[t].expiredCount = 1
    /\ ResidentIn(pre[t].shelf, IDOf(a)) # {}
    /\ ~IsExpired(a, pre[t].ord[a], pre[t].now)
    /\ ResidentIn(shelf, IDOf(a)) = {}
    /\ ~IsZero(ord[a].WastedAt)
    /\ ResidentIn(shelf, IDOf(b)) # {}
    /\ ~IsExpired(b, ord[b], now)

\* C12: no step decrements or resets TotalOrdersReceived, TotalOrdersDelivered,
\* TotalOrdersExpired or TotalOrdersWasted, and a PlaceOrder call that is about to
\* return has added exactly 1 to TotalOrdersReceived, whatever it returns.
C12_CountersMonotone ==
  [][/\ TotalOrdersReceived' >= TotalOrdersReceived
     /\ TotalOrdersDelivered' >= TotalOrdersDelivered
     /\ TotalOrdersExpired' >= TotalOrdersExpired
     /\ TotalOrdersWasted' >= TotalOrdersWasted
     /\ \A t \in Threads :
          (thr'[t].pc = "unlock" /\ thr'[t].op = "PlaceOrder") =>
            TotalOrdersReceived' = pre'[t].received + 1]_vars

\* The third PlaceOrder call is turned away and is counted as received all the same;
\* orders have been delivered and swept before it.
C12_Witness ==
  \E t \in Threads :
    /\ AtReturn(t, "PlaceOrder")
    /\ thr[t].ret = FALSE
    /\ TotalOrdersReceived = 3
    /\ TotalOrdersReceived = pre[t].received + 1
    /\ TotalOrdersWasted >= 1

\* C17: once an order's PlacedOnOverflow is set, no later step changes it, the rest
\* of the PlaceOrder call that put the order on overflow included.
C17_OverflowStampWriteOnce ==
  [][\A o \in Orders :
       ~IsZero(ord[o].PlacedOnOverflow) =>
         ord'[o].PlacedOnOverflow = ord[o].PlacedOnOverflow]_vars

\* The times at which an order's value may be asked for.
EvalTimes == ZeroTime .. (MaxTime + 2)

\* C19: an order whose PlacedOnShelfAt is unset has value exactly 1 and is not
\* expired at every time, whatever its shelf life and decay rate; a PlaceOrder call
\* that turns away a never-placed order leaves it so; an order no PlaceOrder call was
\* given has the four timestamps NewOrder gave it: all unset.
C19_UnplacedFullValue ==
  /\ \A o \in Orders :
       IsZero(ord[o].PlacedOnShelfAt) =>
         \A t \in EvalTimes :
           CalculateValue(o, ord[o], t) = <<1, 1>> /\ ~IsExpired(o, ord[o], t)
  /\ \A t \in Threads :
       (/\ AtReturn(t, "PlaceOrder") /\ thr[t].ret = FALSE
        /\ IsZero(pre[t].ord[thr[t].arg].PlacedOnShelfAt)) =>
         IsZero(ord[thr[t].arg].PlacedOnShelfAt)
  /\ \A o \in Orders :
       hist.placed[o] = 0 =>
         /\ IsZero(ord[o].PlacedOnShelfAt) /\ IsZero(ord[o].PlacedOnOverflow)
         /\ IsZero(ord[o].WastedAt) /\ IsZero(ord[o].DeliveredAt)

\* An order with a positive decay rate was turned away for lack of room, was never
\* on a shelf, and is worth 1 long after.
C19_Witness ==
  \E o \in Orders :
    /\ DecayRateOf(o) > 0
    /\ ~IsZero(ord[o].WastedAt)
    /\ IsZero(ord[o].PlacedOnShelfAt)
    /\ CalculateValue(o, ord[o], MaxTime + 2) = <<1, 1>>
    /\ \E x \in Orders : hist.placed[x] = 0 /\ ord[x] = NewOrder

\* ------------------------------------------------------------- the decay model
\* One order on its own: any shelf life and decay rate, placed on a primary shelf and
\* perhaps on overflow later, its value asked for as the clock runs.  calc.r holds its
\* placement timestamps, calc.value and calc.expired the results of the last
\* CalculateValue(now) and IsExpired(now), calc.wasExpired the IsExpired before it.
MaxEvalTime == MaxTime + 2
ShelfLives == 0 .. MaxShelfLife
DecayRates == (0 - 1) .. MaxDecayRate
NoValue == <<>>

InitValue ==
  /\ InitManager
  /\ sim = NoSim
  /\ calc \in [ShelfLife : ShelfLives, DecayRate : DecayRates, r : {NewOrder},
               value : {NoValue}, expired : {FALSE}, wasExpired : {FALSE}]

\* Shelf.AddOrder's writes to the order, on a primary shelf or on the overflow shelf.
ValueAddOrder(s) ==
  /\ calc # NoCalc
  /\ now' \in now .. MaxEvalTime
  /\ calc' = [calc EXCEPT !.r = AddOrderFields(s, @), !.value = NoValue,
                          !.expired = FALSE, !.wasExpired = FALSE]
  /\ UNCHANGED <<sim, ord, shelf, stats, smutex, mutex, totals, thr, pre, hist>>

\* order.CalculateValue(time.Now()) and order.IsExpired(time.Now()).
ValueEvaluate ==
  /\ calc # NoCalc
  /\ now' \in now .. MaxEvalTime
  /\ calc' = [calc EXCEPT
       !.value = CalculateValueOf(calc.ShelfLife, calc.DecayRate, calc.r, now'),
       !.expired = IsExpiredOf(calc.ShelfLife, calc.DecayRate, calc.r, now'),
       !.wasExpired = calc.expired]
  /\ UNCHANGED <<sim, ord, shelf, stats, smutex, mutex, totals, thr, pre, hist>>

NextValue ==
  \/ \E s \in {HotShelf, OverflowShelf} : ValueAddOrder(s)
  \/ ValueEvaluate

SpecValue == InitValue /\ [][NextValue]_vars

Max0(x) == IF x > 0 THEN x ELSE 0

\* The order under evaluation has been placed and its value has been computed.
Evaluated == calc # NoCalc /\ calc.value # NoValue /\ ~IsZero(calc.r.PlacedOnShelfAt)

\* C18: for shelf life L > 0 and decay rate R >= 0, an order placed at p has at
\* now >= p the value max(0, L - R*(now - p)) / L, whether it stayed on its primary
\* shelf or went to overflow at some q between p and now; the value is at least 0, at
\* most 1, and is 0 exactly when R*(now - p) >= L.
C18_DecayFormula ==
  (Evaluated /\ calc.ShelfLife > 0 /\ calc.DecayRate >= 0) =>
    LET L == calc.ShelfLife
        d == calc.DecayRate * (now - calc.r.PlacedOnShelfAt)
        v == calc.value
    IN  /\ v[2] > 0
        /\ v[1] * L = Max0(L - d) * v[2]
        /\ 0 <= v[1] /\ v[1] <= v[2]
        /\ (v[1] = 0) <=> (d >= L)

\* An order of shelf life 3 and rate 1 went to overflow a tick after it was placed and
\* is worth a third another tick later.
C18_Witness ==
  /\ Evaluated
  /\ calc.ShelfLife = 3 /\ calc.DecayRate = 1
  /\ calc.r.PlacedOnShelfAt < calc.r.PlacedOnOverflow
  /\ calc.r.PlacedOnOverflow < now
  /\ calc.value = <<1, 3>>

\* C20: IsExpired(now) is true exactly when CalculateValue(now) <= 0, and with a
\* decay rate >= 0 and placement timestamps that stay as they are an order that was
\* expired at one reading of the clock is expired at every later one.
C20_ExpiryMonotone ==
  Evaluated =>
    /\ calc.expired <=> (calc.value[2] # 0 /\ calc.value[1] * calc.value[2] <= 0)
    /\ (calc.DecayRate >= 0 /\ calc.wasExpired) => calc.expired

\* An order on overflow was expired, and is expired when asked again later.
C20_Witness ==
  /\ Evaluated
  /\ calc.ShelfLife > 0 /\ calc.DecayRate > 0
  /\ ~IsZero(calc.r.PlacedOnOverflow)
  /\ calc.wasExpired /\ calc.expired
  /\ calc.value = <<0, 1>>
  /\ now = MaxEvalTime

\* ------------------------------------------------------------- a shelf on its own
\* Threads call Shelf.AddOrder on the shelves directly, as the shelf tests do: no
\* manager lock is involved, the shelf's own lock serialises the calls.  A shelf
\* treats all orders alike, so the callers take new orders from the pool in its order
\* (and may pass any order again that was passed before).
CallAddOrder(t, s, o) ==
  /\ CanCall(t)
  /\ \A x \in Orders : x < o => hist.placed[x] > 0
  /\ thr' = [thr EXCEPT ![t] = [Idle EXCEPT !.pc = "add", !.op = "AddOrder",
                                            !.shelf = s, !.arg = o]]
  /\ hist' = [hist EXCEPT !.calls = @ + 1, !.placed[o] = Min(@ + 1, 2)]
  /\ UNCHANGED <<sim, calc, now, ord, shelf, stats, smutex, mutex, totals, pre>>

\* A faulty variant of ShelfAddOrder: a rejected order is labelled with the shelf all the
\* same.
ShelfAddOrderLabels(t) ==
  LET s == thr[t].shelf
  IN  /\ thr[t].pc = "add"
      /\ smutex[s] = t
      /\ smutex' = [smutex EXCEPT ![s] = NoThread]
      /\ IF AddOrderRejects(s)
         THEN /\ thr' = [thr EXCEPT ![t].pc = "shelf_return", ![t].ret = FALSE]
              /\ ord' = [ord EXCEPT ![thr[t].arg].CurrentShelfType = s]
              /\ UNCHANGED <<now, shelf, stats>>
         ELSE /\ AddOrderInsert(s, thr[t].arg)
              /\ thr' = [thr EXCEPT ![t].pc = "shelf_return", ![t].ret = TRUE]
      /\ UNCHANGED <<sim, calc, mutex, totals, pre, hist>>

\* Shelf.AddOrder under the shelf lock: the capacity test, the insertion, the unlock.
ShelfAddOrder(t) ==
  LET s == thr[t].shelf
  IN  /\ thr[t].pc = "add"
      /\ smutex[s] = t
      /\ smutex' = [smutex EXCEPT ![s] = NoThread]
      /\ IF AddOrderRejects(s)
         THEN /\ thr' = [thr EXCEPT ![t].pc = "shelf_return", ![t].ret = FALSE]
              /\ UNCHANGED <<now, ord, shelf, stats>>
         ELSE /\ AddOrderInsert(s, thr[t].arg)
              /\ thr' = [thr EXCEPT ![t].pc = "shelf_return", ![t].ret = TRUE]
      /\ UNCHANGED <<sim, calc, mutex, totals, pre, hist>>

\* The Shelf method returns to its caller.
ShelfReturn(t) ==
  /\ thr[t].pc = "shelf_return"
  /\ thr' = [thr EXCEPT ![t] = Idle]
  /\ UNCHANGED <<sim, calc, now, ord, shelf, stats, smutex, mutex, totals, pre, hist>>

\* The shelves called directly: a primary shelf and the overflow shelf (the primary
\* shelves differ in nothing but their label).
DirectShelves == {HotShelf, OverflowShelf}

NextShelf ==
  \/ \E t \in Threads, s \in DirectShelves, o \in Orders : CallAddOrder(t, s, o)
  \/ \E t \in Threads : ShelfLock(t)
  \/ \E t \in Threads : ShelfAddOrder(t)
  \/ \E t \in Threads : ShelfReturn(t)

SpecShelf == Init /\ [][NextShelf]_vars

\* C16: on a shelf of capacity C that began empty and lost no order, an AddOrder of
\* an order whose identifier the shelf does not hold returns true while fewer than C
\* were added, and the one after the C-th returns false and changes nothing: the
\* size is still C, IsFull is true, the shelf's statistics are as they were, and the
\* rejected order's PlacedOnShelfAt, PlacedOnOverflow and CurrentShelfType are as
\* they were.
C16_AddOrderCapacity ==
  [][\A t \in Threads :
       LET s == thr[t].shelf
           o == thr[t].arg
       IN  (/\ thr[t].pc = "add" /\ thr'[t].pc = "shelf_return"
            /\ stats[s].OrdersAdded = Size(s)
            /\ shelf[s][IDOf(o)] = NoOrder) =>
             /\ Size(s) < Capacity(s) =>
                  (thr'[t].ret = TRUE /\ Len_(shelf'[s]) = Size(s) + 1)
             /\ Size(s) = Capacity(s) =>
                  /\ thr'[t].ret = FALSE
                  /\ shelf' = shelf
                  /\ Len_(shelf'[s]) = Capacity(s)
                  /\ Len_(shelf'[s]) >= Capacity(s)
                  /\ stats' = stats
                  /\ ord'[o].PlacedOnShelfAt = ord[o].PlacedOnShelfAt
                  /\ ord'[o].PlacedOnOverflow = ord[o].PlacedOnOverflow
                  /\ ord'[o].CurrentShelfType = ord[o].CurrentShelfType
             /\ Size(s) <= Capacity(s)]_vars

\* Capacity orders were added to a shelf and the next AddOrder, of an order that sits
\* on another shelf, has been turned away.
C16_Witness ==
  \E t \in Threads :
    LET s == thr[t].shelf
        o == thr[t].arg
    IN  /\ thr[t].pc = "shelf_return" /\ thr[t].op = "AddOrder"
        /\ thr[t].ret = FALSE
        /\ stats[s].OrdersAdded = Capacity(s)
        /\ Size(s) = Capacity(s)
        /\ IsFull(s)
        /\ shelf[s][IDOf(o)] = NoOrder
        /\ ord[o].CurrentShelfType \notin {"", s}

\* ------------------------------------------------------------- GetStats, GetAllOrders
\* The map GetStats returns, before its entries are evaluated.
NewStatsResult ==
  [capacity |-> [s \in ShelfTypes |-> 0],
   current |-> [s \in ShelfTypes |-> 0],
   stats |-> [s \in ShelfTypes |-> ShelfStats],
   totalOrders |-> [received |-> 0, delivered |-> 0, expired |-> 0, wasted |-> 0]]

CallGetStats(t) ==
  /\ CanCall(t)
  /\ thr' = [thr EXCEPT ![t] = [Idle EXCEPT !.pc = "mlock", !.op = "GetStats",
                                            !.result = NewStatsResult]]
  /\ hist' = [hist EXCEPT !.calls = @ + 1]
  /\ UNCHANGED <<sim, calc, now, ord, shelf, stats, smutex, mutex, totals, pre>>

\* A faulty variant of GetStatsSize: the occupancy reported is the shelf's capacity.
GetStatsSizeCapacity(t) ==
  LET s == thr[t].shelf
  IN  /\ thr[t].pc = "size"
      /\ smutex[s] = t
      /\ smutex' = [smutex EXCEPT ![s] = NoThread]
      /\ thr' = [thr EXCEPT ![t].pc = "stats",
                            ![t].result.capacity[s] = Capacity(s),
                            ![t].result.current[s] = Capacity(s)]
      /\ UNCHANGED <<sim, calc, now, ord, shelf, stats, mutex, totals, pre, hist>>

\* "capacity": <shelf>.Capacity, "current": <shelf>.Size()
GetStatsSize(t) ==
  LET s == thr[t].shelf
  IN  /\ thr[t].pc = "size"
      /\ smutex[s] = t
      /\ smutex' = [smutex EXCEPT ![s] = NoThread]
      /\ thr' = [thr EXCEPT ![t].pc = "stats",
                            ![t].result.capacity[s] = Capacity(s),
                            ![t].result.current[s] = Size(s)]
      /\ UNCHANGED <<sim, calc, now, ord, shelf, stats, mutex, totals, pre, hist>>

\* "stats": <shelf>.GetStats(), and on to the next shelf of the map literal.
GetStatsShelf(t) ==
  LET s == thr[t].shelf
  IN  /\ thr[t].pc = "stats"
      /\ smutex[s] = t
      /\ smutex' = [smutex EXCEPT ![s] = NoThread]
      /\ thr' = IF thr[t].idx < Len(ShelfOrder)
                THEN [thr EXCEPT ![t].result.stats[s] = stats[s],
                                 ![t].pc = "size",
                                 ![t].idx = @ + 1,
                                 ![t].shelf = ShelfOrder[thr[t].idx + 1]]
                ELSE [thr EXCEPT ![t].result.stats[s] = stats[s],
                                 ![t].pc = "totals"]
      /\ UNCHANGED <<sim, calc, now, ord, shelf, stats, mutex, totals, pre, hist>>

\* "totalOrders": the four totals; return the map.
GetStatsTotals(t) ==
  /\ thr[t].pc = "totals"
  /\ thr' = [thr EXCEPT ![t].pc = "unlock",
                        ![t].result.totalOrders =
                          [received |-> TotalOrdersReceived,
                           delivered |-> TotalOrdersDelivered,
                           expired |-> TotalOrdersExpired,
                           wasted |-> TotalOrdersWasted]]
  /\ UNCHANGED <<sim, calc, now, ord, shelf, stats, smutex, mutex, totals, pre, hist>>

CallGetAllOrders(t) ==
  /\ CanCall(t)
  /\ thr' = [thr EXCEPT ![t] = [Idle EXCEPT !.pc = "mlock", !.op = "GetAllOrders",
                                            !.result = <<>>]]
  /\ hist' = [hist EXCEPT !.calls = @ + 1]
  /\ UNCHANGED <<sim, calc, now, ord, shelf, stats, smutex, mutex, totals, pre>>

\* Shelf.GetAllOrders: the orders of the shelf in the order a range over the map
\* yields them, which is any order.
ShelfGetAllOrders(s) ==
  {q \in [1 .. Len_(shelf[s]) -> {shelf[s][id] : id \in Keys(shelf[s])}] :
     \A i, j \in 1 .. Len_(shelf[s]) : i # j => q[i] # q[j]}

\* allOrders = append(allOrders, <shelf>.GetAllOrders()...), for the shelf number idx.
GetAllOrdersShelf(t) ==
  LET s == thr[t].shelf
  IN  /\ thr[t].pc = "all"
      /\ smutex[s] = t
      /\ smutex' = [smutex EXCEPT ![s] = NoThread]
      /\ \E q \in ShelfGetAllOrders(s) :
           thr' = IF thr[t].idx < Len(ShelfOrder)
                  THEN [thr EXCEPT ![t].result = @ \o q,
                                   ![t].idx = @ + 1,
                                   ![t].shelf = ShelfOrder[thr[t].idx + 1]]
                  ELSE [thr EXCEPT ![t].result = @ \o q,
                                   ![t].pc = "unlock"]
      /\ UNCHANGED <<sim, calc, now, ord, shelf, stats, mutex, totals, pre, hist>>

\* The five public operations of the manager, called concurrently.
NextManager ==
  \/ Next
  \/ \E t \in Threads : CallGetStats(t)
  \/ \E t \in Threads : GetStatsSize(t)
  \/ \E t \in Threads : GetStatsShelf(t)
  \/ \E t \in Threads : GetStatsTotals(t)
  \/ \E t \in Threads : CallGetAllOrders(t)
  \/ \E t \in Threads : GetAllOrdersShelf(t)

SpecManager == Init /\ [][NextManager]_vars

\* C13: the occupancies, the statistics records and the four totals one GetStats call
\* returns are those of one state, the one the call found when it took the manager
\* lock, in which no manager operation was in progress, whatever PlaceOrder,
\* DeliverOrder and RemoveExpiredOrders calls run concurrently; with pairwise
\* distinct identifiers the returned values therefore satisfy received = delivered +
\* wasted + expired + the sum of the returned occupancies.
C13_GetStatsSnapshot ==
  \A t \in Threads :
    AtReturn(t, "GetStats") =>
      LET p == pre[t]
          r == thr[t].result
      IN  /\ \A s \in ShelfTypes :
               /\ r.capacity[s] = Capacity(s)
               /\ r.current[s] = Len_(p.shelf[s])
               /\ r.stats[s] = p.stats[s]
          /\ r.totalOrders = [received |-> p.received, delivered |-> p.delivered,
                              expired |-> p.expired, wasted |-> p.wasted]
          /\ DistinctIdentifiers =>
               r.totalOrders.received =
                 r.totalOrders.delivered + r.totalOrders.wasted + r.totalOrders.expired
                 + r.current[HotShelf] + r.current[ColdShelf] + r.current[FrozenShelf]
                 + r.current[OverflowShelf]

\* GetStats reports one received order, resident on the hot shelf, while a PlaceOrder
\* call waits for the manager lock.
C13_Witness ==
  \E t, u \in Threads :
    /\ AtReturn(t, "GetStats")
    /\ thr[t].result.totalOrders.received = 1
    /\ thr[t].result.current[HotShelf] = 1
    /\ thr[t].result.stats[HotShelf].OrdersAdded >= 1
    /\ thr[u].pc = "mlock" /\ thr[u].op = "PlaceOrder"

\* Every step of thread t inside a call: all the actions but the calls themselves.
Step(t) ==
  \/ LockManager(t) \/ ShelfLock(t) \/ Unlock(t)
  \/ PlaceOrderBegin(t) \/ PlaceOrderPrimary(t) \/ PlaceOrderOverflow(t)
  \/ PlaceOrderOverflowStamp(t) \/ PlaceOrderWaste(t)
  \/ DeliverFromShelf(t) \/ MarkOrderDelivered(t) \/ DeliverOrderCount(t)
  \/ ShelfRemoveExpiredOrders(t) \/ RemoveExpiredOrdersTotal(t)
  \/ GetStatsSize(t) \/ GetStatsShelf(t) \/ GetStatsTotals(t) \/ GetAllOrdersShelf(t)

\* Fair scheduling: the Go scheduler keeps running a goroutine that can run, and
\* sync.Mutex hands the lock to a goroutine that has waited (starvation mode), so a
\* thread that can take a lock again and again does take it.
FairManager ==
  /\ SpecManager
  /\ \A t \in Threads :
       WF_vars(Step(t)) /\ SF_vars(LockManager(t)) /\ SF_vars(ShelfLock(t))

\* The shelf locks thread t holds.
Held(t) == {s \in ShelfTypes : smutex[s] = t}

LockDiscipline ==
  \A t \in Threads :
    /\ Held(t) # {} => mutex = t
    /\ thr[t].pc = "mlock" => (Held(t) = {} /\ mutex # t)
    /\ Cardinality(Held(t)) <= 1
    /\ Held(t) # {} => (thr[t].pc \in ShelfCallPcs /\ Held(t) = {thr[t].shelf})

\* While a call is under way some thread can take a step.
NoDeadlock == (\E t \in Threads : thr[t].pc # "idle") => ENABLED (\E t \in Threads : Step(t))

\* C14: under any interleaving of PlaceOrder, DeliverOrder, RemoveExpiredOrders,
\* GetStats and GetAllOrders calls a thread holds a shelf lock only while it holds the
\* manager lock, holds no shelf lock and not the manager lock when it waits for the
\* manager lock, holds at most one shelf lock, the one of the shelf method it is
\* executing (so it never waits for a lock it holds); no state is a deadlock; and
\* under fair scheduling every call returns.
C14_LockDiscipline ==
  /\ [](LockDiscipline /\ NoDeadlock)
  /\ \A t \in Threads : (thr[t].pc # "idle") ~> (thr[t].pc = "idle")

\* A GetStats call holds the manager lock and a shelf lock while a GetAllOrders call
\* waits for the manager lock.
C14_Witness ==
  \E t, u \in Threads :
    /\ thr[t].op = "GetStats" /\ mutex = t /\ Held(t) = {OverflowShelf}
    /\ thr[u].op = "GetAllOrders" /\ thr[u].pc = "mlock"

\* ------------------------------------------------------------- the periodic sweep
\* Simulator.cleanupExpiredOrders calls RemoveExpiredOrders on every tick of its
\* ticker, for as long as the simulation runs: these calls are not counted in
\* MaxCalls.  The sweeper is one goroutine: the last thread, when it is free.
SweeperCall(t) ==
  /\ t = NumThreads
  /\ thr[t].pc = "idle"
  /\ thr' = [thr EXCEPT ![t] = [Idle EXCEPT !.pc = "mlock", !.op = "RemoveExpiredOrders"]]
  /\ UNCHANGED <<sim, calc, now, ord, shelf, stats, smutex, mutex, totals, pre, hist>>

\* Orders are handed in during the first MaxTime ticks.
KitchenPlaceOrder(t, o) == now <= MaxTime /\ CallPlaceOrder(t, o)

\* The longest shelf life of the pool, and the time by which every order of the pool
\* that decays at all has expired.
MaxPoolShelfLife == CHOOSE n \in {ShelfLifeOf(o) : o \in Orders} :
                      \A o \in Orders : ShelfLifeOf(o) <= n
EndOfTime == MaxTime + MaxPoolShelfLife

\* Time passes between the manager's operations (within one, the clock readings
\* advance it).  Past MaxTime it passes between PlaceOrder calls, not during one, so
\* that every placement is stamped by MaxTime and the run has room for its decay.
ClockTick ==
  /\ now < EndOfTime
  /\ mutex = NoThread
  /\ now >= MaxTime => \A t \in Threads : thr[t].op # "PlaceOrder"
  /\ now' = now + 1
  /\ UNCHANGED <<sim, calc, ord, shelf, stats, smutex, mutex, totals, thr, pre, hist>>

NextSweeper ==
  \/ \E t \in Threads, o \in Orders : KitchenPlaceOrder(t, o)
  \/ \E t \in Threads, id \in IDs : CallDeliverOrder(t, id)
  \/ \E t \in Threads : SweeperCall(t)
  \/ ClockTick
  \/ \E t \in Threads : LockManager(t)
  \/ \E t \in Threads : ShelfLock(t)
  \/ \E t \in Threads : PlaceOrderBegin(t)
  \/ \E t \in Threads : PlaceOrderPrimary(t)
  \/ \E t \in Threads : PlaceOrderOverflow(t)
  \/ \E t \in Threads : PlaceOrderOverflowStamp(t)
  \/ \E t \in Threads : PlaceOrderWaste(t)
  \/ \E t \in Threads : DeliverFromShelf(t)
  \/ \E t \in Threads : MarkOrderDelivered(t)
  \/ \E t \in Threads : DeliverOrderCount(t)
  \/ \E t \in Threads : ShelfRemoveExpiredOrders(t)
  \/ \E t \in Threads : RemoveExpiredOrdersTotal(t)
  \/ \E t \in Threads : Unlock(t)

\* Time keeps advancing, the sweeper's ticker keeps firing, and threads and locks are
\* scheduled fairly (a shelf lock is only ever asked for under the manager lock, so
\* it is the manager lock that threads wait for); PlaceOrder and DeliverOrder calls
\* may or may not be made.
FairSweeper ==
  /\ Init /\ [][NextSweeper]_vars
  /\ SF_vars(ClockTick)
  /\ WF_vars(\E t \in Threads : SweeperCall(t))
  /\ \A t \in Threads : WF_vars(Step(t)) /\ SF_vars(LockManager(t))

\* The order is on no shelf, delivered or removed as expired.
Left(o) ==
  /\ Resident(IDOf(o)) = {}
  /\ ~IsZero(ord[o].DeliveredAt) \/ ~IsZero(ord[o].WastedAt)

AddOrderSucceeds(t) ==
  \/ thr[t].pc = "add_primary" /\ thr'[t].pc = "unlock"
  \/ thr[t].pc = "add_overflow" /\ thr'[t].pc = "overflow_ts"

\* C21: a successful Shelf.AddOrder stores the order under its identifier, sets its
\* CurrentShelfType to the shelf's type, adds 1 to OrdersAdded and sets
\* PlacedOnShelfAt to the current time only if it was unset; no step of any operation
\* changes a PlacedOnShelfAt that is set.
C21_AddOrderEffects ==
  [][/\ \A t \in Threads :
          LET s == thr[t].shelf
              o == thr[t].arg
          IN  AddOrderSucceeds(t) =>
                /\ shelf'[s][IDOf(o)] = o
                /\ ord'[o].CurrentShelfType = s
                /\ stats'[s].OrdersAdded = stats[s].OrdersAdded + 1
                /\ ord'[o].PlacedOnShelfAt =
                     IF IsZero(ord[o].PlacedOnShelfAt) THEN now' ELSE ord[o].PlacedOnShelfAt
     /\ \A o \in Orders :
          ~IsZero(ord[o].PlacedOnShelfAt) =>
            ord'[o].PlacedOnShelfAt = ord[o].PlacedOnShelfAt]_vars

\* An order placed at tick 1 is placed again a tick later, lands on overflow, and
\* still carries the first placement time.
C21_Witness ==
  \E t \in Threads :
    LET o == thr[t].arg
    IN  /\ AtReturn(t, "PlaceOrder") /\ thr[t].ret = TRUE
        /\ ~IsZero(pre[t].ord[o].PlacedOnShelfAt)
        /\ ord[o].PlacedOnShelfAt = pre[t].ord[o].PlacedOnShelfAt
        /\ ord[o].PlacedOnShelfAt < ord[o].PlacedOnOverflow
        /\ ord[o].CurrentShelfType = OverflowShelf
        /\ shelf[OverflowShelf][IDOf(o)] = o

Max(a, b) == IF a > b THEN a ELSE b

\* C22: each shelf's PeakUsage is 0 on an empty new shelf and after every step it is
\* the larger of what it was and the shelf's size, so it is the largest size the
\* shelf has had so far; hence size <= PeakUsage <= Capacity in every state, and
\* PeakUsage never decreases: removals, deliveries and sweeps leave it as it is.
C22_PeakUsage ==
  /\ [](\A s \in ShelfTypes :
          Size(s) <= stats[s].PeakUsage /\ stats[s].PeakUsage <= Capacity(s))
  /\ [][\A s \in ShelfTypes :
          /\ stats'[s].PeakUsage = Max(stats[s].PeakUsage, Len_(shelf'[s]))
          /\ stats'[s].PeakUsage >= stats[s].PeakUsage]_vars

\* A shelf that was full has been emptied by a delivery and its peak is still its
\* capacity.
C22_Witness ==
  \E s \in ShelfTypes :
    /\ Size(s) = 0
    /\ stats[s].PeakUsage = Capacity(s)
    /\ stats[s].OrdersDelivered = 1

SumStats(st, f) ==
  st[HotShelf][f] + st[ColdShelf][f] + st[FrozenShelf][f] + st[OverflowShelf][f]

\* C25: with distinct identifiers, in every state where the manager lock is free,
\* TotalOrdersDelivered is the sum of the four shelves' OrdersDelivered,
\* TotalOrdersExpired the sum of their OrdersWasted, and TotalOrdersReceived minus
\* TotalOrdersWasted the sum of their OrdersAdded; a PlaceOrder that returns false
\* adds 1 to the manager's TotalOrdersWasted and changes no shelf statistic.
C25_CountersAgree ==
  /\ (DistinctIdentifiers /\ mutex = NoThread) =>
       /\ TotalOrdersDelivered = SumStats(stats, "OrdersDelivered")
       /\ TotalOrdersExpired = SumStats(stats, "OrdersWasted")
       /\ TotalOrdersReceived - TotalOrdersWasted = SumStats(stats, "OrdersAdded")
  /\ \A t \in Threads :
       (AtReturn(t, "PlaceOrder") /\ ~thr[t].ret) =>
         /\ TotalOrdersWasted = pre[t].wasted + 1
         /\ stats = pre[t].stats

\* One order was placed and delivered, another was rejected, and all calls have
\* returned.
C25_Witness ==
  /\ AllReturned
  /\ mutex = NoThread
  /\ DistinctIdentifiers
  /\ TotalOrdersReceived = 2
  /\ TotalOrdersWasted = 1
  /\ TotalOrdersDelivered = 1
  /\ SumStats(stats, "OrdersAdded") = 1

\* The order a call found on some shelf, already expired, when it took the manager lock.
ExpiredResident(t, o) ==
  /\ PlacedOnce(o)
  /\ ResidentIn(pre[t].shelf, IDOf(o)) # {}
  /\ IsExpired(o, pre[t].ord[o], pre[t].now)

PlacementFields(r) == <<r.CurrentShelfType, r.PlacedOnShelfAt, r.PlacedOnOverflow>>

\* The thread is in a PlaceOrder(o) call, at one of the steps that put o on a shelf
\* and stamp it.
PlacingStep(t, o) ==
  /\ thr[t].op = "PlaceOrder"
  /\ thr[t].arg = o
  /\ thr[t].pc \in {"add_primary", "add_overflow", "overflow_ts"}

\* C27: no step moves a resident order between shelves. An entry of a shelf stays
\* where it is until the step that removes it, which gives the order its DeliveredAt
\* or WastedAt and puts it on no other shelf; an entry appears on a shelf only in
\* the AddOrder step of a PlaceOrder call for that order on that shelf; a DeliverOrder
\* or RemoveExpiredOrders call leaves every order it did not remove on the same
\* shelf with the same CurrentShelfType, PlacedOnShelfAt and PlacedOnOverflow, and
\* these fields are written only by the PlaceOrder call that is placing the order.
C27_NoRebalancing ==
  [][/\ \A s \in ShelfTypes, id \in IDs :
          LET o == shelf[s][id]
          IN  o # NoOrder =>
                \/ shelf'[s][id] = o
                \/ /\ shelf'[s][id] = NoOrder
                   /\ ~IsZero(ord'[o].DeliveredAt) \/ ~IsZero(ord'[o].WastedAt)
                   /\ ResidentIn(shelf', id) = ResidentIn(shelf, id) \ {s}
     /\ \A s \in ShelfTypes, id \in IDs :
          (shelf[s][id] = NoOrder /\ shelf'[s][id] # NoOrder) =>
            \E t \in Threads :
              /\ AddOrderSucceeds(t)
              /\ IDOf(thr[t].arg) = id
              /\ thr[t].shelf = s
              /\ shelf'[s][id] = thr[t].arg
     /\ \A o \in Orders :
          PlacementFields(ord'[o]) # PlacementFields(ord[o]) =>
            \E t \in Threads : PlacingStep(t, o) /\ thr'[t] # thr[t]
     /\ \A t \in Threads :
          (thr'[t].pc = "unlock" /\ thr'[t].op \in {"DeliverOrder", "RemoveExpiredOrders"}) =>
            \A s \in ShelfTypes, id \in IDs :
              LET o == shelf'[s][id]
              IN  o # NoOrder =>
                    /\ pre'[t].shelf[s][id] = o
                    /\ PlacementFields(ord'[o]) = PlacementFields(pre'[t].ord[o])]_vars

\* An order placed on overflow is still there, labelled overflow, after a delivery
\* has emptied its primary shelf.
C27_Witness ==
  \E o \in Orders :
    /\ AllReturned
    /\ Recognized(o)
    /\ shelf[OverflowShelf][IDOf(o)] = o
    /\ ord[o].CurrentShelfType = OverflowShelf
    /\ Size(PrimaryOf(o)) = 0
    /\ stats[PrimaryOf(o)].OrdersDelivered = 1

\* ------------------------------------------------------------- Shelf methods, called directly
\* The shelf whose methods are called directly.
OpsShelves == {ColdShelf}

\* A caller outside the manager calls Shelf.RemoveOrder(orderID).
CallRemoveOrder(t, s, id) ==
  /\ CanCall(t)
  /\ thr' = [thr EXCEPT ![t] = [Idle EXCEPT !.pc = "remove", !.op = "RemoveOrder",
                                            !.shelf = s, !.arg = id]]
  /\ hist' = [hist EXCEPT !.calls = @ + 1]
  /\ UNCHANGED <<sim, calc, now, ord, shelf, stats, smutex, mutex, totals, pre>>

\* A caller outside the manager calls Shelf.MarkOrderDelivered(orderID).
CallMarkOrderDelivered(t, s, id) ==
  /\ CanCall(t)
  /\ thr' = [thr EXCEPT ![t] = [Idle EXCEPT !.pc = "mark_delivered",
                                            !.op = "MarkOrderDelivered",
                                            !.shelf = s, !.arg = id]]
  /\ hist' = [hist EXCEPT !.calls = @ + 1]
  /\ UNCHANGED <<sim, calc, now, ord, shelf, stats, smutex, mutex, totals, pre>>

\* A caller outside the manager calls Shelf.RemoveExpiredOrders().
CallShelfRemoveExpiredOrders(t, s) ==
  /\ CanCall(t)
  /\ thr' = [thr EXCEPT ![t] = [Idle EXCEPT !.pc = "remove_expired",
                                            !.op = "RemoveExpiredOrders", !.shelf = s]]
  /\ hist' = [hist EXCEPT !.calls = @ + 1]
  /\ UNCHANGED <<sim, calc, now, ord, shelf, stats, smutex, mutex, totals, pre>>

\* A faulty variant of ShelfRemoveOrder: the removal is not counted.
ShelfRemoveOrderUncounted(t) ==
  LET s == thr[t].shelf
      id == thr[t].arg
      order == shelf[s][id]
  IN  /\ thr[t].pc = "remove"
      /\ smutex[s] = t
      /\ smutex' = [smutex EXCEPT ![s] = NoThread]
      /\ shelf' = [shelf EXCEPT ![s][id] = NoOrder]
      /\ thr' = [thr EXCEPT ![t].pc = "shelf_return", ![t].result = <<order>>]
      /\ UNCHANGED <<sim, calc, now, ord, stats, mutex, totals, pre, hist>>

\* Shelf.RemoveOrder under the shelf lock: returns nil for an identifier the shelf does
\* not hold, else deletes the entry, counts it as removed and returns the order.
ShelfRemoveOrder(t) ==
  LET s == thr[t].shelf
      id == thr[t].arg
      order == shelf[s][id]
  IN  /\ thr[t].pc = "remove"
      /\ smutex[s] = t
      /\ smutex' = [smutex EXCEPT ![s] = NoThread]
      /\ IF order = NoOrder
         THEN UNCHANGED <<shelf, stats>>
         ELSE /\ shelf' = [shelf EXCEPT ![s][id] = NoOrder]
              /\ stats' = [stats EXCEPT ![s].OrdersRemoved = @ + 1]
      /\ thr' = [thr EXCEPT ![t].pc = "shelf_return", ![t].result = <<order>>]
      /\ UNCHANGED <<sim, calc, now, ord, mutex, totals, pre, hist>>

\* Shelf.MarkOrderDelivered under the shelf lock, returning to a direct caller.
ShelfMarkOrderDelivered(t) ==
  LET s == thr[t].shelf
      id == thr[t].arg
      order == shelf[s][id]
  IN  /\ thr[t].pc = "mark_delivered"
      /\ smutex[s] = t
      /\ smutex' = [smutex EXCEPT ![s] = NoThread]
      /\ IF order = NoOrder
         THEN /\ thr' = [thr EXCEPT ![t].pc = "shelf_return", ![t].ret = FALSE]
              /\ UNCHANGED <<now, ord, shelf, stats>>
         ELSE /\ TimeNow(now')
              /\ shelf' = [shelf EXCEPT ![s][id] = NoOrder]
              /\ ord' = [ord EXCEPT ![order].DeliveredAt = now']
              /\ stats' = [stats EXCEPT ![s].OrdersDelivered = @ + 1,
                                        ![s].OrdersRemoved = @ + 1]
              /\ thr' = [thr EXCEPT ![t].pc = "shelf_return", ![t].ret = TRUE]
      /\ UNCHANGED <<sim, calc, mutex, totals, pre, hist>>

\* Shelf.RemoveExpiredOrders under the shelf lock, returning its count to a direct
\* caller.
ShelfSweep(t) ==
  LET s == thr[t].shelf
      gone == ExpiredKeys(s, now')
      goneOrders == {shelf[s][id] : id \in gone}
  IN  /\ thr[t].pc = "remove_expired"
      /\ smutex[s] = t
      /\ TimeNow(now')
      /\ smutex' = [smutex EXCEPT ![s] = NoThread]
      /\ shelf' = [shelf EXCEPT ![s] = [id \in IDs |-> IF id \in gone THEN NoOrder ELSE @[id]]]
      /\ ord' = [o \in Orders |-> IF o \in goneOrders THEN [ord[o] EXCEPT !.WastedAt = now']
                                  ELSE ord[o]]
      /\ stats' = [stats EXCEPT ![s].OrdersWasted = @ + Cardinality(gone)]
      /\ thr' = [thr EXCEPT ![t].pc = "shelf_return",
                            ![t].expiredCount = Cardinality(gone)]
      /\ UNCHANGED <<sim, calc, mutex, totals, pre, hist>>

NextShelfOps ==
  \/ \E t \in Threads, s \in OpsShelves, o \in Orders : CallAddOrder(t, s, o)
  \/ \E t \in Threads, s \in OpsShelves, id \in IDs : CallRemoveOrder(t, s, id)
  \/ \E t \in Threads, s \in OpsShelves, id \in IDs : CallMarkOrderDelivered(t, s, id)
  \/ \E t \in Threads, s \in OpsShelves : CallShelfRemoveExpiredOrders(t, s)
  \/ \E t \in Threads : ShelfLock(t)
  \/ \E t \in Threads : ShelfAddOrder(t)
  \/ \E t \in Threads : ShelfRemoveOrder(t)
  \/ \E t \in Threads : ShelfMarkOrderDelivered(t)
  \/ \E t \in Threads : ShelfSweep(t)
  \/ \E t \in Threads : ShelfReturn(t)

SpecShelfOps == Init /\ [][NextShelfOps]_vars

\* C24: for each shelf, with distinct identifiers, in every state where the shelf
\* lock is free, OrdersAdded = OrdersRemoved + OrdersWasted + size and
\* OrdersDelivered <= OrdersRemoved; a sweep adds the number of orders it deletes to
\* OrdersWasted and nothing to OrdersRemoved, MarkOrderDelivered of a held order adds
\* 1 to OrdersDelivered and to OrdersRemoved, and RemoveOrder of a held order adds 1
\* to OrdersRemoved only.
C24_ShelfAccounting ==
  /\ [](\A s \in ShelfTypes :
          (DistinctIdentifiers /\ smutex[s] = NoThread) =>
            /\ stats[s].OrdersAdded
                 = stats[s].OrdersRemoved + stats[s].OrdersWasted + Size(s)
            /\ stats[s].OrdersDelivered <= stats[s].OrdersRemoved)
  /\ [][\A t \in Threads :
          LET s == thr[t].shelf
              held == shelf[s][thr[t].arg] # NoOrder
              n == Size(s) - Len_(shelf'[s])
          IN  /\ (thr[t].pc = "remove_expired" /\ thr'[t].pc = "shelf_return") =>
                   stats'[s] = [stats[s] EXCEPT !.OrdersWasted = @ + n]
              /\ (thr[t].pc = "mark_delivered" /\ thr'[t].pc = "shelf_return") =>
                   stats'[s] = IF held
                               THEN [stats[s] EXCEPT !.OrdersDelivered = @ + 1,
                                                     !.OrdersRemoved = @ + 1]
                               ELSE stats[s]
              /\ (thr[t].pc = "remove" /\ thr'[t].pc = "shelf_return") =>
                   stats'[s] = IF held
                               THEN [stats[s] EXCEPT !.OrdersRemoved = @ + 1]
                               ELSE stats[s]]_vars

\* Two orders were added to a shelf and a sweep has deleted one of them: it is
\* counted as wasted and not as removed, and the other is still there.
C24_Witness ==
  \E s \in ShelfTypes :
    /\ DistinctIdentifiers
    /\ smutex[s] = NoThread
    /\ stats[s].OrdersAdded = 2
    /\ stats[s].OrdersWasted = 1
    /\ stats[s].OrdersRemoved = 0
    /\ Size(s) = 1

Goroutines == <<"generateOrders", "processDeliveries", "cleanupExpiredOrders", "reportStats">>

\* NewSimulator, and Run called on it: an open stop channel, an empty wait group, no
\* order processed, no goroutine started. duration is Config.SimulationDuration > 0.
NewSimulator(duration) ==
  [duration |-> duration, closes |-> 0, panicked |-> FALSE, wg |-> 0,
   ordersProcessed |-> 0, spawned |-> 0, run |-> "spawn", stop |-> "idle",
   go |-> [g \in {Goroutines[i] : i \in 1 .. Len(Goroutines)} |-> "none"],
   allOrders |-> {}]

InitSimulator ==
  /\ InitManager
  /\ calc = NoCalc
  /\ sim \in {NewSimulator(d) : d \in BOOLEAN}

\* len(s.Orders): the simulator's list is the order pool.
LenOrders == Cardinality(Orders)

\* The stop channel has been closed: a receive from it does not block.
Stopped == sim.closes >= 1

\* close(s.stop): closes an open channel and panics on a closed one; closes counts
\* the executions of the statement.
Close(s) ==
  IF s.closes >= 1
  THEN [s EXCEPT !.closes = @ + 1, !.panicked = TRUE]
  ELSE [s EXCEPT !.closes = 1]

\* The process is alive: a panic in any goroutine ends it.
Alive == ~sim.panicked

\* ShelfManager.PlaceOrder under the manager lock, as one step: no other manager call
\* runs between its statements, and the clock is read by AddOrder and again at
\* manager.go 61.
PlaceOrderEffect(o) ==
  LET primary == GetShelfForTemperature(TempOf(o))
      room(s) == ~AddOrderRejects(s)
  IN  /\ TotalOrdersReceived' = TotalOrdersReceived + 1
      /\ UNCHANGED <<TotalOrdersDelivered, TotalOrdersExpired>>
      /\ IF primary = NoShelf
         THEN /\ TotalOrdersWasted' = TotalOrdersWasted + 1
              /\ UNCHANGED <<now, ord, shelf, stats>>
         ELSE IF room(primary)
         THEN /\ AddOrderInsert(primary, o)
              /\ UNCHANGED TotalOrdersWasted
         ELSE IF room(OverflowShelf)
         THEN /\ \E t1 \in now .. (IF now > MaxTime THEN now ELSE MaxTime) :
                   /\ TimeNow(t1)
                   /\ TimeNow(now')
                   /\ t1 <= now'
                   /\ ord' = [ord EXCEPT ![o] =
                               [@ EXCEPT !.PlacedOnShelfAt = IF IsZero(@) THEN t1 ELSE @,
                                         !.CurrentShelfType = OverflowShelf,
                                         !.PlacedOnOverflow = now']]
              /\ LET orders == [shelf[OverflowShelf] EXCEPT ![AddOrderKey(o)] = o]
                 IN  /\ shelf' = [shelf EXCEPT ![OverflowShelf] = orders]
                     /\ stats' = [stats EXCEPT
                                    ![OverflowShelf].OrdersAdded = @ + 1,
                                    ![OverflowShelf].PeakUsage =
                                      IF Len_(orders) > @ THEN Len_(orders) ELSE @]
              /\ UNCHANGED TotalOrdersWasted
         ELSE /\ TimeNow(now')
              /\ TotalOrdersWasted' = TotalOrdersWasted + 1
              /\ ord' = [ord EXCEPT ![o].WastedAt = now']
              /\ UNCHANGED <<shelf, stats>>

\* ShelfManager.DeliverOrder under the manager lock, as one step: the first shelf in
\* the visiting order that holds the identifier gives the order up.
DeliverOrderEffect(id) ==
  LET held == {i \in 1 .. Len(ShelfOrder) : shelf[ShelfOrder[i]][id] # NoOrder}
  IN  IF held = {}
      THEN UNCHANGED <<now, ord, shelf, stats, totals>>
      ELSE LET s == ShelfOrder[CHOOSE i \in held : \A j \in held : i <= j]
               order == shelf[s][id]
           IN  /\ TimeNow(now')
               /\ shelf' = [shelf EXCEPT ![s][id] = NoOrder]
               /\ ord' = [ord EXCEPT ![order].DeliveredAt = now']
               /\ stats' = [stats EXCEPT ![s].OrdersDelivered = @ + 1,
                                         ![s].OrdersRemoved = @ + 1]
               /\ TotalOrdersDelivered' = TotalOrdersDelivered + 1
               /\ UNCHANGED <<TotalOrdersReceived, TotalOrdersExpired, TotalOrdersWasted>>

\* ShelfManager.RemoveExpiredOrders under the manager lock, as one step: each shelf
\* in turn reads the clock and deletes the orders expired at that reading.
RemoveExpiredOrdersEffect ==
  \E rd \in [1 .. Len(ShelfOrder) -> now .. (IF now > MaxTime THEN now ELSE MaxTime)] :
    LET gone(i) == ExpiredKeys(ShelfOrder[i], rd[i])
        index(s) == CHOOSE i \in 1 .. Len(ShelfOrder) : ShelfOrder[i] = s
        sweptAt(o) == {i \in 1 .. Len(ShelfOrder) :
                         \E id \in gone(i) : shelf[ShelfOrder[i]][id] = o}
        count == Cardinality({<<i, id>> \in (1 .. Len(ShelfOrder)) \X IDs : id \in gone(i)})
    IN  /\ \A i \in 1 .. (Len(ShelfOrder) - 1) : rd[i] <= rd[i + 1]
        /\ now' = rd[Len(ShelfOrder)]
        /\ shelf' = [s \in ShelfTypes |->
                       [id \in IDs |-> IF id \in gone(index(s)) THEN NoOrder
                                       ELSE shelf[s][id]]]
        /\ ord' = [o \in Orders |->
                     IF sweptAt(o) = {} THEN ord[o]
                     ELSE [ord[o] EXCEPT !.WastedAt =
                             rd[CHOOSE i \in sweptAt(o) : \A j \in sweptAt(o) : j <= i]]]
        /\ stats' = [s \in ShelfTypes |->
                       [stats[s] EXCEPT !.OrdersWasted = @ + Cardinality(gone(index(s)))]]
        /\ TotalOrdersExpired' = TotalOrdersExpired + count
        /\ UNCHANGED <<TotalOrdersReceived, TotalOrdersDelivered, TotalOrdersWasted>>

\* Run: s.wg.Add(1); go ... for the next of the four goroutines, then on to the wait
\* for the stop signal.
RunSpawn ==
  /\ Alive
  /\ sim.run = "spawn"
  /\ sim' = [sim EXCEPT !.wg = @ + 1,
                        !.spawned = @ + 1,
                        !.go[Goroutines[sim.spawned + 1]] = "loop",
                        !.run = IF sim.spawned + 1 = Len(Goroutines) THEN "select"
                                ELSE "spawn"]
  /\ UNCHANGED <<calc, now, ord, shelf, stats, smutex, mutex, totals, thr, pre, hist>>

\* Run: case <-durationTimer.C, taken when a duration is configured.
RunTimer ==
  /\ Alive
  /\ sim.run = "select"
  /\ sim.duration
  /\ sim' = [sim EXCEPT !.run = "close"]
  /\ UNCHANGED <<calc, now, ord, shelf, stats, smutex, mutex, totals, thr, pre, hist>>

\* Run: close(s.stop) after the timer fired.
RunClose ==
  /\ Alive
  /\ sim.run = "close"
  /\ sim' = Close([sim EXCEPT !.run = "wait"])
  /\ UNCHANGED <<calc, now, ord, shelf, stats, smutex, mutex, totals, thr, pre, hist>>

\* Run: <-s.stop, in the select or alone.
RunStopped ==
  /\ Alive
  /\ sim.run = "select"
  /\ Stopped
  /\ sim' = [sim EXCEPT !.run = "wait"]
  /\ UNCHANGED <<calc, now, ord, shelf, stats, smutex, mutex, totals, thr, pre, hist>>

\* Run: s.wg.Wait() returns, the final statistics are printed, Run returns.
RunReturn ==
  /\ Alive
  /\ sim.run = "wait"
  /\ sim.wg = 0
  /\ sim' = [sim EXCEPT !.run = "done"]
  /\ UNCHANGED <<calc, now, ord, shelf, stats, smutex, mutex, totals, thr, pre, hist>>

\* Stop, called once by another goroutine while Run is executing: close(s.stop).
StopClose ==
  /\ Alive
  /\ sim.stop = "idle"
  /\ sim.run # "done"
  /\ sim' = Close([sim EXCEPT !.stop = "wait"])
  /\ UNCHANGED <<calc, now, ord, shelf, stats, smutex, mutex, totals, thr, pre, hist>>

\* Stop: s.wg.Wait() returns.
StopReturn ==
  /\ Alive
  /\ sim.stop = "wait"
  /\ sim.wg = 0
  /\ sim' = [sim EXCEPT !.stop = "done"]
  /\ UNCHANGED <<calc, now, ord, shelf, stats, smutex, mutex, totals, thr, pre, hist>>

\* generateOrders: case <-ticker.C with orders left: createOrderFromList places a new
\* order and counts it; after the last one the goroutine goes to sleep.
GenerateOrdersTick ==
  /\ Alive
  /\ sim.go["generateOrders"] = "loop"
  /\ sim.ordersProcessed < LenOrders
  /\ PlaceOrderEffect(sim.ordersProcessed + 1)
  /\ sim' = [sim EXCEPT !.ordersProcessed = @ + 1,
                        !.go["generateOrders"] =
                          IF sim.ordersProcessed + 1 >= LenOrders THEN "sleep" ELSE "loop"]
  /\ UNCHANGED <<calc, smutex, mutex, thr, pre, hist>>

\* generateOrders: after the sleep that follows the last order, close(s.stop).
GenerateOrdersClose ==
  /\ Alive
  /\ sim.go["generateOrders"] = "sleep"
  /\ sim' = Close([sim EXCEPT !.go["generateOrders"] = "loop"])
  /\ UNCHANGED <<calc, now, ord, shelf, stats, smutex, mutex, totals, thr, pre, hist>>

\* case <-s.stop: return, and the deferred s.wg.Done(), in any of the four goroutines.
GoroutineReturn(g) ==
  /\ Alive
  /\ sim.go[g] = "loop"
  /\ Stopped
  /\ sim' = [sim EXCEPT !.go[g] = "exited", !.wg = @ - 1]
  /\ UNCHANGED <<calc, now, ord, shelf, stats, smutex, mutex, totals, thr, pre, hist>>

\* processDeliveries: case <-ticker.C: attemptDeliveries takes the list of all orders
\* and returns at once when it is empty.
ProcessDeliveriesTick ==
  /\ Alive
  /\ sim.go["processDeliveries"] = "loop"
  /\ \E s \in ShelfTypes : Keys(shelf[s]) # {}
  /\ sim' = [sim EXCEPT !.allOrders = UNION {Keys(shelf[s]) : s \in ShelfTypes},
                        !.go["processDeliveries"] = "deliver"]
  /\ UNCHANGED <<calc, now, ord, shelf, stats, smutex, mutex, totals, thr, pre, hist>>

\* attemptDeliveries: the loop body for the next order of the list: the sleep, then
\* DeliverOrder; after the last one back to the select.
AttemptDeliveriesNext(id) ==
  /\ Alive
  /\ sim.go["processDeliveries"] = "deliver"
  /\ id \in sim.allOrders
  /\ DeliverOrderEffect(id)
  /\ sim' = [sim EXCEPT !.allOrders = @ \ {id},
                        !.go["processDeliveries"] =
                          IF sim.allOrders = {id} THEN "loop" ELSE "deliver"]
  /\ UNCHANGED <<calc, smutex, mutex, thr, pre, hist>>

\* cleanupExpiredOrders: case <-ticker.C: RemoveExpiredOrders.
CleanupExpiredOrdersTick ==
  /\ Alive
  /\ sim.go["cleanupExpiredOrders"] = "loop"
  /\ RemoveExpiredOrdersEffect
  /\ UNCHANGED <<sim, calc, smutex, mutex, thr, pre, hist>>

\* The simulator: Run, one Stop call, and the four goroutines. reportStats' tick only
\* reads (GetStats) and prints, so it is a step that changes nothing.
NextSimulator ==
  \/ RunSpawn
  \/ RunTimer
  \/ RunClose
  \/ RunStopped
  \/ RunReturn
  \/ StopClose
  \/ StopReturn
  \/ GenerateOrdersTick
  \/ GenerateOrdersClose
  \/ \E i \in 1 .. Len(Goroutines) : GoroutineReturn(Goroutines[i])
  \/ ProcessDeliveriesTick
  \/ \E id \in IDs : AttemptDeliveriesNext(id)
  \/ CleanupExpiredOrdersTick

SpecSimulator == InitSimulator /\ [][NextSimulator]_vars

\* C23: in every execution, with Stop called at any moment while Run is executing
\* and with or without a duration timer, the stop channel is closed at most once
\* among Stop, the duration timer in Run and the generator's close after its last
\* order, and no goroutine panics.
C23_StopClosedAtMostOnce ==
  /\ sim.closes <= 1
  /\ ~sim.panicked

====
